---------------------------- MODULE Spec2Model ----------------------------
(***************************************************************************)
(* A model of the lexical front end of go-cee: the buffer cursor          *)
(* (scanner.BufferScanner), the raw scanner (scanner.Scanner) and the     *)
(* tokenizer layer above it (parser.Scanner).                              *)
(*                                                                         *)
(* A rune is a one-character string, a []rune or Go string is a sequence   *)
(* of runes.  A token kind is the name of its constant in token.go; the    *)
(* iota order of the constants is kept in TokenEnum.  The kinds of the     *)
(* scanner package are written "scanner.WORD", ... because the two         *)
(* packages number their kinds independently.                              *)
(***************************************************************************)
EXTENDS Integers, Sequences, FiniteSets, TLC

VARIABLES
    bs,     \* scanner.BufferScanner: [Position, Buffer, Lines]
    Token,  \* parser.Scanner.Token, Parser.Token: the token last stored by Scan
    QuoteStack, \* Parser.QuoteStack
    Diagnosis,  \* Parser.Diagnosis
    ret     \* what the last call returned (or panicked with)

vars == <<bs, Token, QuoteStack, Diagnosis, ret>>

(***************************************************************************)
(* Runes and their classes (unicode.IsDigit, unicode.IsLetter,            *)
(* unicode.IsPunct, unicode.IsSymbol restricted to the ASCII runes the     *)
(* model draws its buffers from).                                          *)
(***************************************************************************)
NL == "\n"

NUL == "NUL"

Digits == {"0", "1", "2", "3", "4", "5", "6", "7", "8", "9"}

Letters ==
    {"a", "b", "c", "d", "e", "f", "g", "h", "i", "j", "k", "l", "m",
     "n", "o", "p", "q", "r", "s", "t", "u", "v", "w", "x", "y", "z",
     "A", "F", "U"}

PunctSymbols ==
    {"+", "-", "*", "/", "%", "&", "|", "^", "<", ">", "=", "!", ".", "~",
     ":", ";", ",", "{", "}", "[", "]", "(", ")", "\"", "'", "\\", "_"}

IsDigit(ch) == ch \in Digits

IsLetter(ch) == ch \in Letters

IsMark(ch) == ch \in PunctSymbols

(***************************************************************************)
(* token.go: the kinds in iota order, ILLEGAL = 0.                         *)
(***************************************************************************)
TokenEnum ==
    << "ILLEGAL", "IDENT", "LITERAL_BEGIN", "INT", "FLOAT", "IMAG", "CHAR",
       "STRING", "LITERAL_END", "KEYWORD_BEGIN", "OPERATOR_BEGIN",
       "ADD", "SUB", "MUL", "QUO", "REM",
       "AND", "OR", "XOR", "SHL", "SHR", "AND_NOT",
       "MEMBER_SELECT", "LAND", "LOR",
       "EQL", "NEQ", "LEQ", "GEQ", "LSS", "GTR", "ASSIGN",
       "ADD_ASSIGN", "SUB_ASSIGN", "MUL_ASSIGN", "QUO_ASSIGN", "REM_ASSIGN",
       "AND_ASSIGN", "OR_ASSIGN", "XOR_ASSIGN", "SHL_ASSIGN", "SHR_ASSIGN",
       "AND_NOT_ASSIGN", "NOT", "ELLIPSIS", "INC", "DEC", "OPERATOR_END",
       "BREAK", "CASE", "CHAN", "CONST", "CONTINUE",
       "DEFAULT", "DEFER", "ELSE", "FALLTHROUGH", "FOR",
       "FUNC", "GO", "GOTO", "IF", "IMPORT",
       "TRAIT", "MAP", "PACKAGE", "RANGE", "RETURN",
       "SWITCH", "SELECT", "STRUCT", "TYPE", "VAR",
       "KEYWORD_END", "DELIMITER_BEGIN",
       "LPAREN", "LBRACK", "LBRACE", "COMMA",
       "RPAREN", "RBRACK", "RBRACE", "SEMICOLON", "COLON", "NEWLINE",
       "DELIMITER_END", "token_end" >>

\* The integer value of a kind.
Ord(kind) == (CHOOSE i \in 1..Len(TokenEnum) : TokenEnum[i] = kind) - 1

\* The kind with an integer value.
KindOf(i) == TokenEnum[i + 1]

\* token.KeywordLiterals: the spellings the array literal assigns.
KeywordSpellings ==
    "ADD" :> <<"+">> @@
    "SUB" :> <<"-">> @@
    "MUL" :> <<"*">> @@
    "QUO" :> <<"/">> @@
    "REM" :> <<"%">> @@
    "AND" :> <<"&">> @@
    "OR" :> <<"|">> @@
    "XOR" :> <<"^">> @@
    "SHL" :> <<"<", "<">> @@
    "SHR" :> <<">", ">">> @@
    "AND_NOT" :> <<"&", "^">> @@
    "ADD_ASSIGN" :> <<"+", "=">> @@
    "SUB_ASSIGN" :> <<"-", "=">> @@
    "MUL_ASSIGN" :> <<"*", "=">> @@
    "QUO_ASSIGN" :> <<"/", "=">> @@
    "REM_ASSIGN" :> <<"%", "=">> @@
    "AND_ASSIGN" :> <<"&", "=">> @@
    "OR_ASSIGN" :> <<"|", "=">> @@
    "XOR_ASSIGN" :> <<"^", "=">> @@
    "SHL_ASSIGN" :> <<"<", "<", "=">> @@
    "SHR_ASSIGN" :> <<">", ">", "=">> @@
    "AND_NOT_ASSIGN" :> <<"&", "^", "=">> @@
    "MEMBER_SELECT" :> <<".">> @@
    "LAND" :> <<"&", "&">> @@
    "LOR" :> <<"|", "|">> @@
    "INC" :> <<"+", "+">> @@
    "DEC" :> <<"-", "-">> @@
    "EQL" :> <<"=", "=">> @@
    "LSS" :> <<"<">> @@
    "GTR" :> <<">">> @@
    "ASSIGN" :> <<"=">> @@
    "NOT" :> <<"!">> @@
    "NEQ" :> <<"!", "=">> @@
    "LEQ" :> <<"<", "=">> @@
    "GEQ" :> <<">", "=">> @@
    "ELLIPSIS" :> <<".", ".", ".">> @@
    "LPAREN" :> <<"(">> @@
    "LBRACK" :> <<"[">> @@
    "LBRACE" :> <<"{">> @@
    "COMMA" :> <<",">> @@
    "RPAREN" :> <<")">> @@
    "RBRACK" :> <<"]">> @@
    "RBRACE" :> <<"}">> @@
    "SEMICOLON" :> <<";">> @@
    "COLON" :> <<":">> @@
    "NEWLINE" :> <<NL>> @@
    "BREAK" :> <<"b", "r", "e", "a", "k">> @@
    "CASE" :> <<"c", "a", "s", "e">> @@
    "CHAN" :> <<"c", "h", "a", "n">> @@
    "CONST" :> <<"c", "o", "n", "s", "t">> @@
    "CONTINUE" :> <<"c", "o", "n", "t", "i", "n", "u", "e">> @@
    "DEFAULT" :> <<"d", "e", "f", "a", "u", "l", "t">> @@
    "DEFER" :> <<"d", "e", "f", "e", "r">> @@
    "ELSE" :> <<"e", "l", "s", "e">> @@
    "FOR" :> <<"f", "o", "r">> @@
    "FUNC" :> <<"f", "u", "n">> @@
    "GO" :> <<"g", "o">> @@
    "GOTO" :> <<"g", "o", "t", "o">> @@
    "IF" :> <<"i", "f">> @@
    "IMPORT" :> <<"i", "m", "p", "o", "r", "t">> @@
    "TRAIT" :> <<"i", "n", "t", "e", "r", "f", "a", "c", "e">> @@
    "MAP" :> <<"m", "a", "p">> @@
    "PACKAGE" :> <<"p", "a", "c", "k", "a", "g", "e">> @@
    "RANGE" :> <<"r", "a", "n", "g", "e">> @@
    "RETURN" :> <<"r", "e", "t", "u", "r", "n">> @@
    "SWITCH" :> <<"s", "w", "i", "t", "c", "h">> @@
    "SELECT" :> <<"s", "e", "l", "e", "c", "t">> @@
    "STRUCT" :> <<"s", "t", "r", "u", "c", "t">> @@
    "TYPE" :> <<"t", "y", "p", "e">> @@
    "VAR" :> <<"v", "a", "r">>

\* KeywordLiterals[i]: an index the array literal leaves out holds "".
KeywordLiterals(i) ==
    IF KindOf(i) \in DOMAIN KeywordSpellings
    THEN KeywordSpellings[KindOf(i)]
    ELSE <<>>

\* func init(): the indices the loop `for i := KEYWORD_BEGIN; i < KEYWORD_END; i++`
\* enters into KeywordEnums.
InitRange == Ord("KEYWORD_BEGIN") .. (Ord("KEYWORD_END") - 1)

\* `_, ok := KeywordEnums[lit]`
KeywordEnumsHas(lit) == \E i \in InitRange : KeywordLiterals(i) = lit

\* `k, _ := KeywordEnums[lit]`: the last index written under lit, 0 if none.
KeywordEnums(lit) ==
    IF KeywordEnumsHas(lit)
    THEN LET I == {i \in InitRange : KeywordLiterals(i) = lit}
         IN  KindOf(CHOOSE i \in I : \A j \in I : j <= i)
    ELSE "ILLEGAL"

\* token.Delimiters: a rune the map lacks reads as 0 (ILLEGAL); the two quotes
\* are entered with the value 1, which is IDENT's.
Delimiters(ch) ==
    CASE ch = "{" -> "LBRACE"
      [] ch = "}" -> "RBRACE"
      [] ch = "[" -> "LBRACK"
      [] ch = "]" -> "RBRACK"
      [] ch = "(" -> "LPAREN"
      [] ch = ")" -> "RPAREN"
      [] ch = "," -> "COMMA"
      [] ch = ";" -> "SEMICOLON"
      [] ch = "\"" -> "IDENT"
      [] ch = "'" -> "IDENT"
      [] ch = NL -> "NEWLINE"
      [] OTHER -> "ILLEGAL"

\* token.IsLiteralValue
IsLiteralValue(kind) ==
    Ord("LITERAL_BEGIN") < Ord(kind) /\ Ord(kind) < Ord("LITERAL_END")

(***************************************************************************)
(* scanner.go: positions, errors and the buffer cursor.                    *)
(***************************************************************************)
ZeroPosition == [Offset |-> 0, Line |-> 0, Column |-> 0]

NoError == [type |-> "nil"]

EOFError(pos) == [type |-> "EOFError", Pos |-> pos]

FormatError(pos) == [type |-> "FormatError", Pos |-> pos]

\* UnknownEscapeCharError{Char: ch}: Pos is left at its zero value.
UnknownEscapeCharError(ch) ==
    [type |-> "UnknownEscapeCharError", Pos |-> ZeroPosition, Char |-> ch]

NewBufferScanner(buffer) ==
    [Position |-> ZeroPosition, Buffer |-> buffer, Lines |-> <<>>]

\* Buffer[i] with Go's zero-based index.
At(b, i) == b.Buffer[i + 1]

\* Buffer[from:to]
Slice(b, from, to) == SubSeq(b.Buffer, from + 1, to)

\* The loop of BufferScanner.FetchLine: end runs to the next '\n' or the end.
RECURSIVE LineEnd(_, _)
LineEnd(b, end) ==
    IF end < Len(b.Buffer) /\ At(b, end) # NL THEN LineEnd(b, end + 1) ELSE end

\* BufferScanner.FetchLine: the runes from the cursor up to the next '\n'.
FetchLine(b) == Slice(b, b.Position.Offset, LineEnd(b, b.Position.Offset))

\* BufferScanner.GetChar
GetChar(b) ==
    IF b.Position.Offset = Len(b.Buffer)
    THEN [ch |-> NUL, err |-> EOFError(b.Position)]
    ELSE [ch |-> At(b, b.Position.Offset), err |-> NoError]

\* A variant of Advance that leaves Column counting on over a newline.
Advance_ColumnKept(b, ch) ==
    IF ch = NL
    THEN [b EXCEPT !.Position = [Offset |-> @.Offset + 1, Line |-> @.Line + 1,
                                 Column |-> @.Column + 1],
                   !.Lines = Append(@, FetchLine(b))]
    ELSE [b EXCEPT !.Position = [Offset |-> @.Offset + 1, Line |-> @.Line,
                                 Column |-> @.Column + 1]]

\* The body of BufferScanner.Move once GetChar gave ch: on '\n' Column and Line
\* are set and FetchLine is appended before Offset is incremented.
Advance(b, ch) ==
    IF ch = NL
    THEN [b EXCEPT !.Position = [Offset |-> @.Offset + 1, Line |-> @.Line + 1,
                                 Column |-> 0],
                   !.Lines = Append(@, FetchLine(b))]
    ELSE [b EXCEPT !.Position = [Offset |-> @.Offset + 1, Line |-> @.Line,
                                 Column |-> @.Column + 1]]

MoveOn(b, g) ==
    IF g.err # NoError
    THEN [ch |-> NUL, err |-> g.err, bs |-> b]
    ELSE [ch |-> g.ch, err |-> NoError, bs |-> Advance(b, g.ch)]

\* BufferScanner.Move: the rune at the cursor, the error, and the scanner after.
Move(b) == MoveOn(b, GetChar(b))

(***************************************************************************)
(* scanner.go: the raw scanner.  A scanning operator takes the scanner     *)
(* before the call and yields [bs, kind, lit, err]: the scanner after the  *)
(* call and the values returned.  Kind "0" is Go's zero int.  An operator  *)
(* named XOn is the rest of X after its first call, whose result it takes. *)
(***************************************************************************)
Result(b, kind, lit, err) == [bs |-> b, kind |-> kind, lit |-> lit, err |-> err]

Failure(b, err) == Result(b, "0", <<>>, err)

Panic(value) == [type |-> "panic", value |-> value]

RECURSIVE GotoNextLine(_)
\* A variant of the loop that moves over the newline it stops at.
GotoNextLineOn_OverNewline(b, g) ==
    IF g.err # NoError THEN [bs |-> b, err |-> g.err]
    ELSE IF g.ch = NL THEN [bs |-> Move(b).bs, err |-> NoError]
    ELSE GotoNextLine(Move(b).bs)

GotoNextLineOn(b, g) ==
    IF g.err # NoError THEN [bs |-> b, err |-> g.err]
    ELSE IF g.ch = NL THEN [bs |-> b, err |-> NoError]
    ELSE GotoNextLine(Move(b).bs)

\* Scanner.GotoNextLine
GotoNextLine(b) == GotoNextLineOn(b, GetChar(b))

RECURSIVE SkipWhitespace(_)
SkipWhitespaceOn(b, g) ==
    IF g.err # NoError THEN [bs |-> b, err |-> g.err]
    ELSE IF g.ch \notin {" ", "\t", "\r"} THEN [bs |-> b, err |-> NoError]
    ELSE SkipWhitespace(Move(b).bs)

\* Scanner.SkipWhitespace
SkipWhitespace(b) == SkipWhitespaceOn(b, GetChar(b))

HexDigits ==
    Digits \cup {"a", "b", "c", "d", "e", "f", "A", "B", "C", "D", "E", "F"}

RECURSIVE MoveRunes(_, _, _)
MoveRunesOn(m, n, literal) ==
    IF m.err # NoError THEN Failure(m.bs, m.err)
    ELSE MoveRunes(m.bs, n - 1, Append(literal, m.ch))

\* The loop of Scanner.ScanUnicodeCharHex: n more runes are moved over.
MoveRunes(b, n, literal) ==
    IF n = 0 THEN Result(b, "0", literal, NoError)
    ELSE MoveRunesOn(Move(b), n, literal)

\* strconv.ParseUint(_, 16, _) fails on any rune that is no hex digit; the rune
\* decoded is written [hex |-> the runes read].
ScanUnicodeCharHexOn(r) ==
    IF r.err # NoError THEN [bs |-> r.bs, ch |-> NUL, err |-> r.err]
    ELSE IF \E i \in 1..Len(r.lit) : r.lit[i] \notin HexDigits
    THEN [bs |-> r.bs, ch |-> NUL, err |-> FormatError(r.bs.Position)]
    ELSE [bs |-> r.bs, ch |-> [hex |-> r.lit], err |-> NoError]

\* Scanner.ScanUnicodeCharHex
ScanUnicodeCharHex(b, runesN) == ScanUnicodeCharHexOn(MoveRunes(b, runesN, <<>>))

Decoded(b, ch) == [bs |-> b, ch |-> ch, err |-> NoError]

ScanEscapeCharOn(m, quote) ==
    CASE m.ch = quote -> Decoded(m.bs, quote)
      [] m.ch # quote /\ m.ch = "n" -> Decoded(m.bs, NL)
      [] m.ch # quote /\ m.ch = "t" -> Decoded(m.bs, "\t")
      [] m.ch # quote /\ m.ch = "r" -> Decoded(m.bs, "\r")
      [] m.ch # quote /\ m.ch = "\\" -> Decoded(m.bs, "\\")
      [] m.ch # quote /\ m.ch = "x" -> ScanUnicodeCharHex(m.bs, 2)
      [] m.ch # quote /\ m.ch = "u" -> ScanUnicodeCharHex(m.bs, 4)
      [] m.ch # quote /\ m.ch = "U" -> ScanUnicodeCharHex(m.bs, 8)
      [] OTHER -> [bs |-> m.bs, ch |-> NUL, err |-> UnknownEscapeCharError(m.ch)]

\* Scanner.ScanEscapeChar: Move's error is dropped, the rune is then 0.
ScanEscapeChar(b, quote) == ScanEscapeCharOn(Move(b), quote)

RECURSIVE QuotedLoop(_, _, _)
QuotedEscape(e, quote, str) ==
    IF e.err # NoError THEN Failure(e.bs, e.err)
    ELSE QuotedLoop(e.bs, quote, Append(str, e.ch))

QuotedLoopOn(m, quote, str) ==
    IF m.err # NoError THEN Failure(m.bs, m.err)
    ELSE IF m.ch = "\\" THEN QuotedEscape(ScanEscapeChar(m.bs, quote), quote, str)
    ELSE IF m.ch = quote THEN Result(m.bs, "scanner.STRING", str, NoError)
    ELSE QuotedLoop(m.bs, quote, Append(str, m.ch))

\* The loop of Scanner.ScanQuotedString.
QuotedLoop(b, quote, str) == QuotedLoopOn(Move(b), quote, str)

\* Scanner.ScanQuotedString: the opening quote is moved over unchecked.
ScanQuotedString(b, quote) == QuotedLoop(Move(b).bs, quote, <<>>)

ScanQuotedCharOn(q) ==
    IF q.err # NoError THEN Failure(q.bs, q.err)
    ELSE IF Len(q.lit) # 1 THEN Failure(q.bs, FormatError(q.bs.Position))
    ELSE Result(q.bs, "scanner.CHAR", q.lit, NoError)

\* Scanner.ScanQuotedChar
ScanQuotedChar(b) == ScanQuotedCharOn(ScanQuotedString(b, "'"))

ScanLineCommentOn(begin, g) ==
    IF g.err # NoError THEN Failure(g.bs, g.err)
    ELSE Result(g.bs, "scanner.COMMENT",
                Slice(g.bs, begin, g.bs.Position.Offset), NoError)

\* Scanner.ScanLineComment
ScanLineComment(b) == ScanLineCommentOn(b.Position.Offset, GotoNextLine(b))

RECURSIVE QuotedCommentLoop(_, _)
QuotedCommentStar(m2, begin, end) ==
    IF m2.err # NoError THEN Failure(m2.bs, m2.err)
    ELSE IF m2.ch = "/"
    THEN Result(m2.bs, "scanner.COMMENT", Slice(m2.bs, begin, end), NoError)
    ELSE QuotedCommentLoop(m2.bs, begin)

QuotedCommentLoopOn(m, begin, end) ==
    IF m.err # NoError THEN Failure(m.bs, m.err)
    ELSE IF m.ch = "*" THEN QuotedCommentStar(Move(m.bs), begin, end)
    ELSE QuotedCommentLoop(m.bs, begin)

\* The loop of Scanner.ScanQuotedComment: end is the cursor before each Move.
QuotedCommentLoop(b, begin) == QuotedCommentLoopOn(Move(b), begin, b.Position.Offset)

\* Scanner.ScanQuotedComment
ScanQuotedComment(b) == QuotedCommentLoop(b, b.Position.Offset)

ScanCommentOn(m) ==
    IF m.err # NoError THEN Failure(m.bs, m.err)
    ELSE CASE m.ch = "/" -> ScanLineComment(m.bs)
           [] m.ch = "*" -> ScanQuotedComment(m.bs)
           [] OTHER -> Failure(m.bs, FormatError(m.bs.Position))

\* Scanner.ScanComment: the rune switched on is the one Move returns, which is
\* the rune at the cursor on entry.
ScanComment(b) == ScanCommentOn(Move(b))

ScanDigitOn(m) == Result(m.bs, "scanner.INT", <<m.ch>>, NoError)

\* Scanner.ScanDigit: one rune, whatever follows (the rest is a TODO).
ScanDigit(b) == ScanDigitOn(Move(b))

RECURSIVE WordLoop(_, _)
WordLoopOn(b, g, word) ==
    IF g.err # NoError THEN Failure(b, g.err)
    ELSE IF IsDigit(g.ch) \/ IsLetter(g.ch) \/ g.ch = "_"
    THEN WordLoop(Move(b).bs, Append(word, g.ch))
    ELSE IF Len(word) = 0 THEN Failure(b, FormatError(b.Position))
    ELSE Result(b, "scanner.WORD", word, NoError)

\* The loop of Scanner.ScanWord.
WordLoop(b, word) == WordLoopOn(b, GetChar(b), word)

\* Scanner.ScanWord
ScanWord(b) == WordLoop(b, <<>>)

RECURSIVE MarkSeqLoop(_, _)
MarkSeqLoopOn(b, g, seq) ==
    IF g.err # NoError THEN Failure(b, g.err)
    ELSE IF IsMark(g.ch) /\ Delimiters(g.ch) = "ILLEGAL"
    THEN MarkSeqLoop(Move(b).bs, Append(seq, g.ch))
    ELSE IF Len(seq) = 0 THEN Failure(b, FormatError(b.Position))
    ELSE Result(b, "scanner.MARKS", seq, NoError)

\* The loop of Scanner.ScanMarkSeq.
MarkSeqLoop(b, seq) == MarkSeqLoopOn(b, GetChar(b), seq)

\* Scanner.ScanMarkSeq
ScanMarkSeq(b) == MarkSeqLoop(b, <<>>)

\* The switch of Scanner.ScanToken's closure, on the rune g at the cursor.
DispatchOn(b, g) ==
    IF g.err # NoError THEN Failure(b, g.err)
    ELSE CASE IsDigit(g.ch) -> ScanDigit(b)
           [] ~IsDigit(g.ch) /\ (IsLetter(g.ch) \/ g.ch = "_") -> ScanWord(b)
           [] g.ch = "\"" -> ScanQuotedString(b, g.ch)
           [] g.ch = "'" -> ScanQuotedChar(b)
           [] g.ch \notin {"\"", "'", "_"} /\ Delimiters(g.ch) # "ILLEGAL" ->
                Result(Move(b).bs, "scanner.MARKS", <<g.ch>>, NoError)
           [] g.ch = "/" -> ScanComment(b)
           [] g.ch \notin {"/", "_", "\"", "'"} /\ Delimiters(g.ch) = "ILLEGAL"
              /\ IsMark(g.ch) -> ScanMarkSeq(b)
           [] OTHER -> Failure(b, Panic("impossible"))

\* The closure of Scanner.ScanToken.
Dispatch(b) == DispatchOn(b, GetChar(b))

ScanTokenDone(begin, d) ==
    [bs |-> d.bs, begin |-> begin, kind |-> d.kind, lit |-> d.lit, err |-> d.err]

ScanTokenOn(w) ==
    IF w.err # NoError
    THEN [bs |-> w.bs, begin |-> ZeroPosition, kind |-> "0", lit |-> <<>>,
          err |-> w.err]
    ELSE ScanTokenDone(w.bs.Position, Dispatch(w.bs))

\* Scanner.ScanToken: [bs, begin, kind, lit, err].
ScanToken(b) == ScanTokenOn(SkipWhitespace(b))

(***************************************************************************)
(* parser/scanner.go: the tokenizer layer.                                 *)
(***************************************************************************)
ZeroPosRange == [From |-> ZeroPosition, To |-> ZeroPosition]

\* ast.Token{}
ZeroToken == [PosRange |-> ZeroPosRange, Kind |-> "ILLEGAL", Literal |-> <<>>]

MakeToken(from, to, kind, lit) ==
    [PosRange |-> [From |-> from, To |-> to], Kind |-> kind, Literal |-> lit]

\* parser.UnknownOperatorError: the token it carries has an empty PosRange and
\* the scanner's kind.
UnknownOperatorError(kind, lit) ==
    [type |-> "UnknownOperatorError",
     Token |-> [PosRange |-> ZeroPosRange, Kind |-> kind, Literal |-> lit]]

\* The kinds after which `switch s.Token.Kind` turns a newline into a semicolon.
SemicolonAfter ==
    {"IDENT", "RBRACE", "RBRACK", "RPAREN", "BREAK", "CONTINUE", "RETURN",
     "INC", "DEC"}

\* The array literal of the default case: scanner kind -> token kind, 0 elsewhere.
LiteralKind(kind) ==
    CASE kind = "scanner.INT" -> "INT"
      [] kind = "scanner.CHAR" -> "CHAR"
      [] kind = "scanner.STRING" -> "STRING"
      [] OTHER -> "ILLEGAL"

\* What one call of the tokenizer's ScanToken yields: the scanner after it, the
\* token and error returned, whether it panicked instead (err is then the panic
\* value), and the raw tokens it pulled from the scanner below, in order.
Yield(b, tok, err, panicked, pulled) ==
    [bs |-> b, tok |-> tok, err |-> err, panicked |-> panicked, pulled |-> pulled]

Pulled(pulled, r) ==
    Append(pulled, [begin |-> r.begin, kind |-> r.kind, lit |-> r.lit])

\* case scanner.WORD
WordToken(r) ==
    MakeToken(r.begin, r.bs.Position,
              IF KeywordEnumsHas(r.lit) THEN KeywordEnums(r.lit) ELSE "IDENT",
              r.lit)

RECURSIVE TokenizerScanToken(_, _, _)
\* case scanner.MARKS, with k = KeywordEnums[lit]
MarksToken(r, k, prev, seen) ==
    IF k = "NEWLINE"
    THEN IF prev \in SemicolonAfter
         THEN Yield(r.bs, MakeToken(r.begin, r.bs.Position, "SEMICOLON", <<";">>),
                    NoError, FALSE, seen)
         ELSE TokenizerScanToken(r.bs, prev, seen)
    ELSE Yield(r.bs, MakeToken(r.begin, r.bs.Position, k, r.lit), NoError, FALSE, seen)

\* default:
LiteralToken(r, k, seen) ==
    IF k = "ILLEGAL"
    THEN Yield(r.bs, ZeroToken, Panic("impossible"), TRUE, seen)
    ELSE Yield(r.bs, MakeToken(r.begin, r.bs.Position, k, r.lit), NoError, FALSE, seen)

TokenizerScanTokenOn(r, prev, pulled, seen) ==
    IF r.err # NoError THEN Yield(r.bs, ZeroToken, r.err, FALSE, pulled)
    ELSE CASE r.kind = "scanner.WORD" ->
                Yield(r.bs, WordToken(r), NoError, FALSE, seen)
           [] r.kind = "scanner.MARKS" ->
                IF ~KeywordEnumsHas(r.lit)
                THEN Yield(r.bs, ZeroToken, UnknownOperatorError(r.kind, r.lit),
                           TRUE, seen)
                ELSE MarksToken(r, KeywordEnums(r.lit), prev, seen)
           [] r.kind = "scanner.COMMENT" -> TokenizerScanToken(r.bs, prev, seen)
           [] OTHER -> LiteralToken(r, LiteralKind(r.kind), seen)

TokenizerPulled(r, prev, pulled) ==
    TokenizerScanTokenOn(r, prev, pulled, Pulled(pulled, r))

\* (parser) Scanner.ScanToken, with s.Token.Kind passed as prev.
TokenizerScanToken(b, prev, pulled) == TokenizerPulled(ScanToken(b), prev, pulled)

\* No call has been made yet.
NoCall ==
    [op |-> "none", at |-> ZeroPosition, prev |-> "ILLEGAL", tok |-> ZeroToken,
     err |-> NoError, panicked |-> FALSE, pulled |-> <<>>]

ScanStore(y) ==
    /\ bs' = y.bs
    /\ Token' = IF y.err = NoError THEN y.tok ELSE Token
    /\ ret' = [op |-> "Scan", at |-> bs.Position, prev |-> Token.Kind,
               tok |-> y.tok, err |-> y.err, panicked |-> y.err # NoError,
               pulled |-> y.pulled]
    /\ UNCHANGED <<QuoteStack, Diagnosis>>

\* (parser) Scanner.Scan: the token is stored unless ScanToken failed, and a
\* failure of either sort leaves as a panic.
Scan ==
    /\ ~ret.panicked
    /\ ScanStore(TokenizerScanToken(bs, Token.Kind, <<>>))

(***************************************************************************)
(* The tokenizer over source buffers: Scan is called until it panics.      *)
(* The buffers are (a) every concatenation of at most MaxLexemes lexemes,  *)
(* (b) every mark spelling between delimiting runes and (c) every word     *)
(* before a terminating rune.                                              *)
(***************************************************************************)
MaxLexemes == 4

Lexemes ==
    { <<"x">>, <<"1">>, <<NL>>, <<" ">>, <<"+", "+">>, <<"+">>, <<"}">>,
      <<"/", "/", "c">>, <<"b", "r", "e", "a", "k">> }

RECURSIVE LexemeBuffers(_)
LexemeBuffers(n) ==
    IF n = 0 THEN {<<>>}
    ELSE LET P == LexemeBuffers(n - 1)
         IN  P \cup {p \o l : p \in P, l \in Lexemes}

\* The operator spellings of the language, with their kinds.
OperatorKinds ==
    { "ADD", "SUB", "MUL", "QUO", "REM", "AND", "OR", "XOR", "SHL", "SHR",
      "AND_NOT", "MEMBER_SELECT", "LAND", "LOR", "EQL", "NEQ", "LEQ", "GEQ",
      "LSS", "GTR", "ASSIGN", "ADD_ASSIGN", "SUB_ASSIGN", "MUL_ASSIGN",
      "QUO_ASSIGN", "REM_ASSIGN", "AND_ASSIGN", "OR_ASSIGN", "XOR_ASSIGN",
      "SHL_ASSIGN", "SHR_ASSIGN", "AND_NOT_ASSIGN", "NOT", "ELLIPSIS", "INC",
      "DEC" }

DelimiterKinds ==
    { "LBRACE", "RBRACE", "LBRACK", "RBRACK", "LPAREN", "RPAREN", "COMMA",
      "SEMICOLON", "COLON" }

\* Mark sequences that spell no operator.
UnknownMarks ==
    { <<"+", "-">>, <<"=", ">">>, <<"~">>, <<"*", "*">>, <<"+", "/">>,
      <<".", ".">> }

MarkSpellings ==
    {KeywordSpellings[k] : k \in OperatorKinds \cup DelimiterKinds}
        \cup UnknownMarks

MarkBuffers ==
    {pre \o m \o post :
        pre \in {<<>>, <<" ">>, <<"a">>},
        m \in MarkSpellings,
        post \in {<<" ">>, <<"a", " ">>, <<"1">>}}

KeywordKinds ==
    { "BREAK", "CASE", "CHAN", "CONST", "CONTINUE", "DEFAULT", "DEFER",
      "ELSE", "FOR", "FUNC", "GO", "GOTO", "IF", "IMPORT", "TRAIT", "MAP",
      "PACKAGE", "RANGE", "RETURN", "SWITCH", "SELECT", "STRUCT", "TYPE",
      "VAR" }

\* Words the keyword table of token.go does not spell.
OtherWords ==
    { <<"f", "a", "l", "l", "t", "h", "r", "o", "u", "g", "h">>,
      <<"v", "a", "l">>, <<"x">>, <<"_", "a", "1">>, <<"i", "f", "s">>,
      <<"b", "r", "e", "a">>, <<"t", "r", "a", "i", "t">> }

Words == {KeywordSpellings[k] : k \in KeywordKinds} \cup OtherWords

WordBuffers ==
    {pre \o w \o post :
        pre \in {<<>>, <<" ">>},
        w \in Words,
        post \in {<<" ">>, <<NL>>, <<"+", " ">>}}

SourceBuffers == LexemeBuffers(MaxLexemes) \cup MarkBuffers \cup WordBuffers

Init ==
    /\ bs \in {NewBufferScanner(b) : b \in SourceBuffers}
    /\ Token = ZeroToken
    /\ QuoteStack = <<>>
    /\ Diagnosis = <<>>
    /\ ret = NoCall

Next == Scan

Spec == Init /\ [][Next]_vars

(***************************************************************************)
(* What the properties of the tokenizer speak about: the source text at    *)
(* the place where a call of Scan starts.                                  *)
(***************************************************************************)
LiteralKinds == {"INT", "FLOAT", "CHAR", "STRING"}

\* A raw token of the scanner that is a newline.
RawNewline(p) == p.kind = "scanner.MARKS" /\ p.lit = <<NL>>

\* The offset of the first rune at or after o that is no blank.
RECURSIVE TokenStart(_, _)
TokenStart(buffer, o) ==
    IF o < Len(buffer) /\ buffer[o + 1] \in {" ", "\t", "\r"}
    THEN TokenStart(buffer, o + 1)
    ELSE o

\* The longest run of runes of the set S that starts at offset o.
RECURSIVE RunAt(_, _, _)
RunAt(buffer, o, S) ==
    IF o < Len(buffer) /\ buffer[o + 1] \in S
    THEN <<buffer[o + 1]>> \o RunAt(buffer, o + 1, S)
    ELSE <<>>

\* The runes m stand at offset o.
StandsAt(buffer, o, m) ==
    /\ o + Len(m) <= Len(buffer)
    /\ \A i \in 1..Len(m) : buffer[o + i] = m[i]

Blanks == {" ", "\t", "\r"}

\* m stands at offset o as a whole mark sequence: a blank, a letter or a digit
\* follows it, and the start of the buffer or one of those precedes it.
WholeMarkSequence(buffer, o, m) ==
    /\ StandsAt(buffer, o, m)
    /\ o + Len(m) < Len(buffer)
    /\ buffer[o + Len(m) + 1] \in Blanks \cup Letters \cup Digits
    /\ o > 0 => buffer[o] \in Blanks \cup Letters \cup Digits

\* The position one newline after a position.
AfterNewline(pos) ==
    [Offset |-> pos.Offset + 1, Line |-> pos.Line + 1, Column |-> 0]

\* C1: in any Scan call, a newline the scanner yields while the kind of the
\* token last stored is no literal kind is returned as one SEMICOLON token
\* ";" spanning the newline exactly when that kind is IDENT, RBRACE, RBRACK,
\* RPAREN, BREAK, CONTINUE, RETURN, INC or DEC; otherwise the newline is
\* dropped and the call goes on to the following token.  No token of kind
\* NEWLINE is returned.
C1_NewlineAt(i) ==
    IF ret.prev \in SemicolonAfter
    THEN /\ ret.err = NoError
         /\ i = Len(ret.pulled)
         /\ ret.tok = MakeToken(ret.pulled[i].begin,
                                AfterNewline(ret.pulled[i].begin),
                                "SEMICOLON", <<";">>)
    ELSE /\ ret.err = NoError => i < Len(ret.pulled)
         /\ ~(ret.err.type = "UnknownOperatorError" /\ i = Len(ret.pulled))

C1_SemicolonInsertion ==
    ret.op = "Scan" =>
        /\ ret.tok.Kind # "NEWLINE"
        /\ \A i \in 1..Len(ret.pulled) :
              (RawNewline(ret.pulled[i]) /\ ret.prev \notin LiteralKinds)
                  => C1_NewlineAt(i)

\* C2: in any Scan call, a newline the scanner yields while the kind of the
\* token last stored is INT, FLOAT, CHAR or STRING is returned as a SEMICOLON
\* token with literal ";".
C2_SemicolonAfterLiteral ==
    ret.op = "Scan" =>
        \A i \in 1..Len(ret.pulled) :
            (RawNewline(ret.pulled[i]) /\ ret.prev \in LiteralKinds) =>
                /\ ret.err = NoError
                /\ i = Len(ret.pulled)
                /\ ret.tok.Kind = "SEMICOLON"
                /\ ret.tok.Literal = <<";">>

\* How a failed call shows in a token stream: the sort of failure and, for an
\* unknown operator, its literal.
FailureOf(err) ==
    [failure |-> err.type,
     lit |-> IF err.type = "UnknownOperatorError" THEN err.Token.Literal ELSE <<>>]

\* The token stream from scanner b on: the kind and literal of every token
\* Scan returns, ended by the failure that stops it.
RECURSIVE Stream(_, _)
StreamOn(y) ==
    IF y.err # NoError THEN <<FailureOf(y.err)>>
    ELSE <<[Kind |-> y.tok.Kind, Literal |-> y.tok.Literal]>>
             \o Stream(y.bs, y.tok.Kind)

Stream(b, prev) == StreamOn(TokenizerScanToken(b, prev, <<>>))

\* The buffer without its runes at the offsets from..to-1.
Without(buffer, from, to) ==
    SubSeq(buffer, 1, from) \o SubSeq(buffer, to + 1, Len(buffer))

\* The scanner as the last call found it.
Before == [Position |-> ret.at, Buffer |-> bs.Buffer, Lines |-> <<>>]

\* The raw token p is a `//` comment that a newline of the buffer ends.
LineCommentEnded(p) ==
    /\ p.kind = "scanner.COMMENT"
    /\ StandsAt(bs.Buffer, p.begin.Offset, <<"/", "/">>)
    /\ LineEnd(Before, p.begin.Offset) < Len(bs.Buffer)

\* The last call's scanner with the comment p taken out of the buffer, up to
\* the newline that ends it.
BeforeWithout(p) ==
    [Before EXCEPT !.Buffer =
        Without(@, p.begin.Offset, LineEnd(Before, p.begin.Offset))]

OperatorSpellings == {KeywordSpellings[k] : k \in OperatorKinds}

KindSpelled(m, kinds) == CHOOSE k \in kinds : KeywordSpellings[k] = m

\* C5: a Scan call that starts on an operator spelling standing as a whole mark
\* sequence returns one token of that operator's kind with the spelling as
\* literal (`/` and `/=` among them), and one that starts on a mark sequence
\* spelling no operator fails with UnknownOperatorError.
C5_OperatorResolution ==
    \A m \in OperatorSpellings \cup UnknownMarks :
        (ret.op = "Scan"
            /\ WholeMarkSequence(bs.Buffer, TokenStart(bs.Buffer, ret.at.Offset), m))
        => IF m \in OperatorSpellings
           THEN /\ ret.err = NoError
                /\ ret.tok.Kind = KindSpelled(m, OperatorKinds)
                /\ ret.tok.Literal = m
           ELSE ret.err.type = "UnknownOperatorError"

\* C6: a Scan call that starts on one of the delimiters { } [ ] ( ) , ; :
\* returns it as one single-rune token of its delimiter kind, and the table
\* KeywordEnums has an entry for every delimiter spelling.
C6_DelimiterResolution ==
    \A k \in DelimiterKinds :
        (ret.op = "Scan"
            /\ StandsAt(bs.Buffer, TokenStart(bs.Buffer, ret.at.Offset),
                        KeywordSpellings[k]))
        => /\ KeywordEnumsHas(KeywordSpellings[k])
           /\ ret.err.type # "UnknownOperatorError"
           /\ ret.err = NoError
           /\ ret.tok.Kind = k
           /\ ret.tok.Literal = KeywordSpellings[k]

\* The keyword list: the spellings token.go gives the keyword kinds, and the
\* two further spellings fallthrough and val.
Fallthrough == <<"f", "a", "l", "l", "t", "h", "r", "o", "u", "g", "h">>

Val == <<"v", "a", "l">>

KeywordList == {KeywordSpellings[k] : k \in KeywordKinds} \cup {Fallthrough, Val}

\* The kinds BREAK .. VAR.
AllKeywordKinds ==
    {KindOf(i) : i \in (Ord("OPERATOR_END") + 1) .. (Ord("KEYWORD_END") - 1)}

\* The word (letters, digits, underscores) that starts at offset o.
WordAt(buffer, o) == RunAt(buffer, o, Letters \cup Digits \cup {"_"})

\* What C7 asks of the token returned for the word w.
C7_Promoted(w) ==
    /\ ret.err = NoError
    /\ ret.tok.Literal = w
    /\ IF w \in KeywordList
       THEN /\ ret.tok.Kind \in AllKeywordKinds
            /\ \A k \in KeywordKinds : KeywordSpellings[k] = w => ret.tok.Kind = k
            /\ w = Fallthrough => ret.tok.Kind = "FALLTHROUGH"
            /\ w = Val => ret.tok.Kind \notin KeywordKinds \cup {"FALLTHROUGH"}
       ELSE ret.tok.Kind = "IDENT"

\* The word w starts at offset o and a further rune follows it.
WordEndedAt(buffer, o, w) ==
    /\ o < Len(buffer)
    /\ buffer[o + 1] \in Letters \cup {"_"}
    /\ w = WordAt(buffer, o)
    /\ o + Len(w) < Len(buffer)

\* C7: a Scan call that starts on a word (one that a further rune ends)
\* returns it with the kind of the keyword it spells (a kind of its own for
\* each of the 26 spellings, none IDENT) or else with kind IDENT, the literal
\* being the word.
C7_KeywordPromotion ==
    \A w \in Words :
        (ret.op = "Scan"
            /\ WordEndedAt(bs.Buffer, TokenStart(bs.Buffer, ret.at.Offset), w))
        => C7_Promoted(w)

(***************************************************************************)
(* The buffer cursor on its own: Move and GetChar are called in any order  *)
(* on every buffer of at most MaxBufferLen runes.  ret keeps the scanner   *)
(* before the call, what the call returned and the runes consumed so far.  *)
(***************************************************************************)
MaxBufferLen == 4

BufferRunes == {"a", " ", NL}

RECURSIVE RuneBuffers(_, _)
RuneBuffers(runes, n) ==
    IF n = 0 THEN {<<>>}
    ELSE LET P == RuneBuffers(runes, n - 1)
         IN  P \cup {Append(p, r) : p \in P, r \in runes}

InitBuffer ==
    /\ bs \in {NewBufferScanner(b) : b \in RuneBuffers(BufferRunes, MaxBufferLen)}
    /\ Token = ZeroToken
    /\ QuoteStack = <<>>
    /\ Diagnosis = <<>>
    /\ ret = [op |-> "none", before |-> bs, ch |-> NUL, err |-> NoError,
              consumed |-> <<>>]

CallMoveOn(m) ==
    /\ bs' = m.bs
    /\ ret' = [op |-> "Move", before |-> bs, ch |-> m.ch, err |-> m.err,
               consumed |-> IF m.err = NoError THEN Append(ret.consumed, m.ch)
                            ELSE ret.consumed]
    /\ UNCHANGED <<Token, QuoteStack, Diagnosis>>

\* A call of BufferScanner.Move.
CallMove == CallMoveOn(Move(bs))

CallGetCharOn(g) ==
    /\ ret' = [op |-> "GetChar", before |-> bs, ch |-> g.ch, err |-> g.err,
               consumed |-> ret.consumed]
    /\ UNCHANGED <<bs, Token, QuoteStack, Diagnosis>>

\* A call of BufferScanner.GetChar.
CallGetChar == CallGetCharOn(GetChar(bs))

NextBuffer == CallMove \/ CallGetChar

SpecBuffer == InitBuffer /\ [][NextBuffer]_vars

\* The number of newlines in a sequence of runes.
RECURSIVE Newlines(_)
Newlines(runes) ==
    IF runes = <<>> THEN 0
    ELSE (IF Head(runes) = NL THEN 1 ELSE 0) + Newlines(Tail(runes))

\* The number of runes after the last newline of a sequence of runes.
RECURSIVE SinceNewline(_)
SinceNewline(runes) ==
    IF runes = <<>> \/ runes[Len(runes)] = NL THEN 0
    ELSE 1 + SinceNewline(SubSeq(runes, 1, Len(runes) - 1))

\* C4: after any sequence of Move (and GetChar) calls, Offset is the number
\* of runes consumed and lies in 0..len(Buffer), the runes consumed are the
\* buffer's first Offset runes, Line is the number of newlines consumed and
\* Column the number of runes consumed since the last of them; GetChar at
\* Offset = len(Buffer) returns the EOF error, and so does Move, which then
\* leaves Offset, Line, Column and Lines as they were.
C4_CursorBookkeeping ==
    /\ bs.Position.Offset = Len(ret.consumed)
    /\ bs.Position.Offset \in 0..Len(bs.Buffer)
    /\ ret.consumed = SubSeq(bs.Buffer, 1, bs.Position.Offset)
    /\ bs.Position.Line = Newlines(ret.consumed)
    /\ bs.Position.Column = SinceNewline(ret.consumed)
    /\ (ret.op \in {"Move", "GetChar"}
           /\ ret.before.Position.Offset = Len(bs.Buffer))
       => /\ ret.err = EOFError(ret.before.Position)
          /\ bs = ret.before
    /\ (ret.op \in {"Move", "GetChar"}
           /\ ret.before.Position.Offset < Len(bs.Buffer))
       => /\ ret.err = NoError
          /\ ret.ch = bs.Buffer[ret.before.Position.Offset + 1]

\* C4 witness: Move was called at the end of a buffer whose consumed runes
\* hold a newline with further runes after it.
C4_MoveAtEnd ==
    /\ ret.op = "Move"
    /\ ret.before.Position.Offset = Len(bs.Buffer)
    /\ bs.Position.Line >= 1
    /\ bs.Position.Column >= 1
    /\ Len(bs.Lines) >= 1

(***************************************************************************)
(* The raw scanner on its own: scanner.Scanner.ScanToken is called until   *)
(* it returns an error, on every buffer of at most MaxScannerLen runes.    *)
(* ret keeps the position before the call and the values returned.         *)
(***************************************************************************)
MaxScannerLen == 4

ScannerRunes == {"\"", "'", "\\", "a", "1", "2", " ", NL}

\* Quoted literals that hold one escape: a quote, a backslash, the runes of the
\* escape and the quote again.
EscapeBodies ==
    { <<"n">>, <<"t">>, <<"r">>, <<"\\">>, <<"\"">>, <<"'">>, <<"a">>, <<"0">>,
      <<"x", "4", "1">>, <<"x", "4", "g">>, <<"u", "0", "0", "4", "F">>,
      <<"U", "0", "0", "0", "0", "0", "0", "4", "1">> }

EscapeBuffers ==
    {<<q, "\\">> \o e \o <<q>> \o post :
        q \in {"\"", "'"}, e \in EscapeBodies, post \in {<<>>, <<"a">>}}

\* Buffers that open with a comment.
CommentBuffers ==
    { <<"/", "/", "a", NL, "b">>, <<"/", "/", NL>>, <<"/", "/", "a", "*", "/", NL>>,
      <<"/", "*", "a", "*", "/", "b">>, <<"/", "*", "*", "/">>,
      <<"/", "*", "a", "*", "*", "/", "b">>, <<"/", "*", NL, "a", "*", "/", NL>>,
      <<" ", "/", "*", "*", "/", NL, "b">> }

ScannerBuffers ==
    RuneBuffers(ScannerRunes, MaxScannerLen) \cup EscapeBuffers \cup CommentBuffers

InitScanner ==
    /\ bs \in {NewBufferScanner(b) : b \in ScannerBuffers}
    /\ Token = ZeroToken
    /\ QuoteStack = <<>>
    /\ Diagnosis = <<>>
    /\ ret = [op |-> "none", at |-> ZeroPosition, begin |-> ZeroPosition,
              kind |-> "0", lit |-> <<>>, err |-> NoError]

CallScanTokenOn(r) ==
    /\ bs' = r.bs
    /\ ret' = [op |-> "ScanToken", at |-> bs.Position, begin |-> r.begin,
               kind |-> r.kind, lit |-> r.lit, err |-> r.err]
    /\ UNCHANGED <<Token, QuoteStack, Diagnosis>>

\* A call of scanner.Scanner.ScanToken.
CallScanToken ==
    /\ ret.err = NoError
    /\ CallScanTokenOn(ScanToken(bs))

NextScanner == CallScanToken

SpecScanner == InitScanner /\ [][NextScanner]_vars

\* The last call was ScanToken and its token starts at offset o, on rune ch.
ScanTokenStartsOn(o, ch) ==
    /\ ret.op = "ScanToken"
    /\ o = TokenStart(bs.Buffer, ret.at.Offset)
    /\ StandsAt(bs.Buffer, o, <<ch>>)

\* C8: a ScanToken call that starts on a decimal digit which begins no 0x, 0o
\* or 0b prefix returns an INT whose literal is the longest run of decimal
\* digits from there, and leaves the cursor right behind that run; "0" alone
\* and "12" are one token each.
C8_DecimalRun ==
    \A o \in 0..Len(bs.Buffer) : \A d \in Digits :
        (ScanTokenStartsOn(o, d)
            /\ \A p \in {"x", "o", "b"} : ~StandsAt(bs.Buffer, o, <<"0", p>>))
        => /\ ret.err = NoError
           /\ ret.kind = "scanner.INT"
           /\ ret.lit = RunAt(bs.Buffer, o, Digits)
           /\ bs.Position.Offset = o + Len(ret.lit)

\* C10: a ScanToken call that starts on a `"` after which the buffer holds no
\* further `"` fails with a NonClosedQuote error whose position is that of the
\* opening quote.
C10_NonClosedQuote ==
    \A o \in 0..Len(bs.Buffer) :
        (ScanTokenStartsOn(o, "\"")
            /\ \A i \in (o + 2)..Len(bs.Buffer) : bs.Buffer[i] # "\"")
        => /\ ret.err.type = "NonClosedQuoteError"
           /\ ret.err.Pos = ret.begin

(***************************************************************************)
(* The numeric literals of the scanner draft that tells the bases apart    *)
(* (its BufferScanner is the one above).  A scanning operator yields       *)
(* [bs, format, lit, err]; format "0" is Go's zero int.  The closure cond  *)
(* of ScanWhile is given as the set of runes it accepts; it is false at    *)
(* the end of the buffer.                                                  *)
(***************************************************************************)
Digit(b, format, lit, err) ==
    [bs |-> b, format |-> format, lit |-> lit, err |-> err]

CondOn(g, accept) == g.err = NoError /\ g.ch \in accept

\* cond()
Cond(b, accept) == CondOn(GetChar(b), accept)

RECURSIVE ScanWhileLoop(_, _, _)
ScanWhileMoved(m, accept, seq) ==
    IF m.err # NoError THEN Digit(m.bs, "0", <<>>, m.err)
    ELSE ScanWhileLoop(m.bs, accept, seq)

ScanWhileStep(b, g, accept, seq) ==
    IF g.err # NoError THEN Digit(b, "0", <<>>, g.err)
    ELSE ScanWhileMoved(Move(b), accept, Append(seq, g.ch))

\* The loop of Scanner.ScanWhile and its check for an empty sequence.
ScanWhileLoop(b, accept, seq) ==
    IF Cond(b, accept) THEN ScanWhileStep(b, GetChar(b), accept, seq)
    ELSE IF Len(seq) = 0 THEN Digit(b, "0", <<>>, FormatError(b.Position))
    ELSE Digit(b, "0", seq, NoError)

\* Scanner.ScanWhile
ScanWhile(b, accept) == ScanWhileLoop(b, accept, <<>>)

\* Scanner.ScanBinDigit
ScanBinDigit(b) == ScanWhile(b, {"0", "1"})

\* Scanner.ScanOctDigit
ScanOctDigit(b) == ScanWhile(b, {"0", "1", "2", "3", "4", "5", "6", "7"})

\* A variant of ScanHexDigit that accepts the octal digits only.
ScanHexDigit_Octal(b) == ScanWhile(b, {"0", "1", "2", "3", "4", "5", "6", "7"})

\* Scanner.ScanHexDigit: '0'..'9' and 'a'..'f'.
ScanHexDigit(b) == ScanWhile(b, Digits \cup {"a", "b", "c", "d", "e", "f"})

\* `return INT_HEX, lit, err` and its like: the format goes with the error too.
Based(format, r) == Digit(r.bs, format, r.lit, r.err)

\* The branch `if ch == '0'` of the draft's ScanDigit, after its Move.
ScanDigitPrefix(m) ==
    IF m.err # NoError THEN Digit(m.bs, "0", <<>>, m.err)
    ELSE CASE m.ch = "x" -> Based("INT_HEX", ScanHexDigit(m.bs))
           [] m.ch = "o" -> Based("INT_OCT", ScanOctDigit(m.bs))
           [] m.ch = "b" -> Based("INT_BIN", ScanBinDigit(m.bs))
           [] OTHER -> Digit(m.bs, "0", <<>>, FormatError(m.bs.Position))

RECURSIVE ScanDigitLoop(_)
ScanDigitLoopOn(m) ==
    IF m.err # NoError THEN Digit(m.bs, "0", <<>>, m.err)
    ELSE ScanDigitLoop(m.bs)

\* The loop `for unicode.IsDigit(ch)` of the draft's ScanDigit when the first
\* rune is a digit: the ch it tests is the first rune, the runes moved over
\* go to a ch of the loop body's own, so only Move's error ends it.
ScanDigitLoop(b) == ScanDigitLoopOn(Move(b))

ScanDigitDraftOn(m) ==
    IF m.err # NoError THEN Digit(m.bs, "0", <<>>, m.err)
    ELSE IF m.ch = "0" THEN ScanDigitPrefix(Move(m.bs))
    ELSE IF IsDigit(m.ch) THEN ScanDigitLoop(m.bs)
    ELSE Digit(m.bs, "0", <<m.ch>>, NoError)

\* Scanner.ScanDigit of the draft.
ScanDigitDraft(b) == ScanDigitDraftOn(Move(b))

(***************************************************************************)
(* The draft's ScanDigit is called, as its ScanToken calls it, with the    *)
(* cursor on a digit, until it returns an error, on every buffer of at     *)
(* most MaxDigitLen runes.                                                 *)
(***************************************************************************)
MaxDigitLen == 4

DigitRunes == {"0", "1", "8", "x", "o", "b", "f", "F", " "}

InitDigit ==
    /\ bs \in {NewBufferScanner(b) : b \in RuneBuffers(DigitRunes, MaxDigitLen)}
    /\ Token = ZeroToken
    /\ QuoteStack = <<>>
    /\ Diagnosis = <<>>
    /\ ret = [op |-> "none", at |-> ZeroPosition, format |-> "0", lit |-> <<>>,
              err |-> NoError]

CallScanDigitOn(r) ==
    /\ bs' = r.bs
    /\ ret' = [op |-> "ScanDigit", at |-> bs.Position, format |-> r.format,
               lit |-> r.lit, err |-> r.err]
    /\ UNCHANGED <<Token, QuoteStack, Diagnosis>>

\* A call of the draft's ScanDigit.
CallScanDigit ==
    /\ ret.err = NoError
    /\ CondOn(GetChar(bs), Digits)
    /\ CallScanDigitOn(ScanDigitDraft(bs))

NextDigit == CallScanDigit

SpecDigit == InitDigit /\ [][NextDigit]_vars

\* The digits of the base a prefix letter selects, as the scanner has them:
\* hexadecimal 0-9 and a-f in lower case, octal 0-7, binary 0 and 1.
BaseDigits(p) ==
    CASE p = "x" -> Digits \cup {"a", "b", "c", "d", "e", "f"}
      [] p = "o" -> {"0", "1", "2", "3", "4", "5", "6", "7"}
      [] p = "b" -> {"0", "1"}

BaseFormat(p) ==
    CASE p = "x" -> "INT_HEX" [] p = "o" -> "INT_OCT" [] p = "b" -> "INT_BIN"

\* What C9 asks of the call when run is the longest run of digits of the base
\* behind the prefix 0p.
C9_Based(p, run) ==
    IF run = <<>>
    THEN ret.err.type = "FormatError"
    ELSE /\ ret.err = NoError
         /\ ret.format = BaseFormat(p)
         /\ ret.lit = run
         /\ bs.Position.Offset = ret.at.Offset + 2 + Len(run)

EscapeValue(e) ==
    CASE e = "n" -> NL
      [] e = "t" -> "\t"
      [] e = "r" -> "\r"
      [] e \in {"\\", "\"", "'"} -> e

\* The kind of the literal a quote opens.
QuotedKind(q) == IF q = "\"" THEN "scanner.STRING" ELSE "scanner.CHAR"

\* The last call returned the literal opened by q with the one rune value.
ReturnedQuoted(q, value) ==
    /\ ret.err = NoError
    /\ ret.kind = QuotedKind(q)
    /\ ret.lit = <<value>>

\* What C11 asks of a call that starts on the literal q \ body q.
C11_Decoded(q, body) ==
    CASE body[1] \in {"n", "t", "r", "\\", "\"", "'"} /\ Len(body) = 1 ->
            ReturnedQuoted(q, EscapeValue(body[1]))
      [] body[1] \in {"x", "u", "U"} ->
            (\A i \in 2..Len(body) : body[i] \in HexDigits)
                => ReturnedQuoted(q, [hex |-> Tail(body)])
      [] OTHER -> ret.err.type = "UnknownEscapeCharError"

\* C11: in a string literal and in a char literal alike, each of the escapes
\* \n \t \r \\ \" \' yields its one rune without ending the literal, \xHH,
\* \uHHHH and \UHHHHHHHH yield the one code point their hex runes spell, and
\* any other rune after a backslash fails with UnknownEscapeChar.
C11_EscapeDecoding ==
    \A q \in {"\"", "'"} : \A body \in EscapeBodies :
        (ret.op = "ScanToken"
            /\ StandsAt(bs.Buffer, TokenStart(bs.Buffer, ret.at.Offset),
                        <<q, "\\">> \o body \o <<q>>))
        => C11_Decoded(q, body)

\* The offsets at or after from where the runes */ stand.
Closers(buffer, from) ==
    {j \in from..Len(buffer) : StandsAt(buffer, j, <<"*", "/">>)}

\* The least element of a non-empty set of numbers.
Least(S) == CHOOSE j \in S : \A k \in S : j <= k

\* What C12 asks of a call that starts on the comment at offset o.
C12_Extent(o) ==
    /\ (StandsAt(bs.Buffer, o, <<"/", "/">>)
           /\ LineEnd(Before, o) < Len(bs.Buffer))
       => /\ ret.err = NoError
          /\ ret.kind = "scanner.COMMENT"
          /\ bs.Position.Offset = LineEnd(Before, o)
    /\ (StandsAt(bs.Buffer, o, <<"/", "*">>)
           /\ Closers(bs.Buffer, o + 2) # {})
       => /\ ret.err = NoError
          /\ ret.kind = "scanner.COMMENT"
          /\ bs.Position.Offset = Least(Closers(bs.Buffer, o + 2)) + 2

\* C12: a ScanToken call that starts on // moves up to, not over, the next
\* newline, and one that starts on /* moves over the first */ behind the
\* opener (be it preceded by another * or lines further down) and leaves the
\* cursor right behind it.
C12_CommentExtent ==
    ret.op = "ScanToken" => C12_Extent(TokenStart(bs.Buffer, ret.at.Offset))

(***************************************************************************)
(* parser.go: Parser.Scan of the parser that keeps a QuoteStack.  Its      *)
(* scanner is the package github.com/langvm/go-cee-scanner, a repository   *)
(* of its own: Scanner.Scan is taken to be scanner.Scanner.ScanToken       *)
(* above, a raw token of kind WORD being its IDENT, a MARKS token of one   *)
(* delimiter rune its DELIMITER and any other MARKS token its OPERATOR.    *)
(* The table token.Keyword2Enum, which package token does not define, is   *)
(* taken to hold every spelling of KeywordLiterals.                        *)
(***************************************************************************)
\* token.Keyword2Enum[lit], 0 for a miss.
Keyword2Enum(lit) ==
    IF lit # <<>> /\ \E k \in DOMAIN KeywordSpellings : KeywordSpellings[k] = lit
    THEN CHOOSE k \in DOMAIN KeywordSpellings : KeywordSpellings[k] = lit
    ELSE "ILLEGAL"

\* bt.Kind
BasicKind(r) ==
    CASE r.kind = "scanner.WORD" -> "scanner.IDENT"
      [] r.kind = "scanner.MARKS" ->
            IF Len(r.lit) = 1 /\ Delimiters(r.lit[1]) # "ILLEGAL"
            THEN "scanner.DELIMITER" ELSE "scanner.OPERATOR"
      [] OTHER -> r.kind

\* Go's runtime panic on arr[:len(arr)-2] with fewer than two elements.
SliceBoundsPanic == Panic("slice bounds out of range")

\* stack.Pop: [arr, err].
Pop(arr) ==
    IF Len(arr) < 2 THEN [arr |-> arr, err |-> SliceBoundsPanic]
    ELSE [arr |-> SubSeq(arr, 1, Len(arr) - 2), err |-> NoError]

\* What a call of Parser.Scan leaves: the scanner, p.Token, p.QuoteStack, the
\* value it panicked with if it did, and where the raw token it stored starts.
Parsed(b, tok, st, err, raw) ==
    [bs |-> b, Token |-> tok, QuoteStack |-> st, err |-> err, raw |-> raw]

\* The assignment to p.Token that ends Parser.Scan.
Stored(begin, r, kind, st) ==
    Parsed(r.bs, MakeToken(begin, r.bs.Position, kind, r.lit), st, NoError, r.begin)

\* case scanner.IDENT, case scanner.OPERATOR
IdentOr(k) == IF k = "ILLEGAL" THEN "IDENT" ELSE k

\* case token.RBRACE, token.RPAREN, token.RBRACK
Closer(begin, r, k, tok, popped) ==
    IF popped.err # NoError THEN Parsed(r.bs, tok, popped.arr, popped.err, r.begin)
    ELSE Stored(begin, r, k, popped.arr)

\* case scanner.DELIMITER, with k = Keyword2Enum[lit]
Delimiter(begin, r, k, tok, st) ==
    CASE k = "LBRACE" -> Stored(begin, r, k, Append(st, "RBRACE"))
      [] k = "LPAREN" -> Stored(begin, r, k, Append(st, "RPAREN"))
      [] k = "LBRACK" -> Stored(begin, r, k, Append(st, "RBRACK"))
      [] k \in {"RBRACE", "RPAREN", "RBRACK"} -> Closer(begin, r, k, tok, Pop(st))
      [] OTHER -> Stored(begin, r, k, st)

RECURSIVE ParserScan(_, _, _)
ParserScanOn(begin, r, tok, st) ==
    IF r.err # NoError THEN Parsed(r.bs, tok, st, r.err, r.begin)
    ELSE CASE BasicKind(r) \in {"scanner.IDENT", "scanner.OPERATOR"} ->
                Stored(begin, r, IdentOr(Keyword2Enum(r.lit)), st)
           [] BasicKind(r) = "scanner.DELIMITER" ->
                Delimiter(begin, r, Keyword2Enum(r.lit), tok, st)
           [] BasicKind(r) = "scanner.INT" -> Stored(begin, r, "INT", st)
           [] BasicKind(r) = "scanner.CHAR" -> Stored(begin, r, "CHAR", st)
           [] BasicKind(r) = "scanner.STRING" -> Stored(begin, r, "STRING", st)
           [] BasicKind(r) = "scanner.COMMENT" -> ParserScan(r.bs, tok, st)
           [] OTHER -> Stored(begin, r, "ILLEGAL", st)

\* Parser.Scan: begin is the cursor before the scanner is called.
ParserScan(b, tok, st) == ParserScanOn(b.Position, ScanToken(b), tok, st)

(***************************************************************************)
(* Parser.Scan is called until it panics, on every concatenation of at     *)
(* most MaxParserLexemes lexemes.  ret keeps the cursor and the token      *)
(* stored before the call, the panic value and the start of the raw token. *)
(***************************************************************************)
MaxParserLexemes == 4

ParserLexemes ==
    { <<"a">>, <<"1">>, <<" ">>, <<NL>>, <<"+">>, <<"(">>, <<")">>, <<"{">>,
      <<"}">>, <<"/", "/", "c", NL>> }

RECURSIVE ParserBuffers(_)
ParserBuffers(n) ==
    IF n = 0 THEN {<<>>}
    ELSE LET P == ParserBuffers(n - 1)
         IN  P \cup {p \o l : p \in P, l \in ParserLexemes}

InitParser ==
    /\ bs \in {NewBufferScanner(b) : b \in ParserBuffers(MaxParserLexemes)}
    /\ Token = ZeroToken
    /\ QuoteStack = <<>>
    /\ Diagnosis = <<>>
    /\ ret = [op |-> "none", at |-> ZeroPosition, stored |-> ZeroToken,
              stack |-> <<>>, err |-> NoError, raw |-> ZeroPosition]

CallParserScanOn(y) ==
    /\ bs' = y.bs
    /\ Token' = y.Token
    /\ QuoteStack' = y.QuoteStack
    /\ UNCHANGED Diagnosis
    /\ ret' = [op |-> "Parser.Scan", at |-> bs.Position, stored |-> Token,
               stack |-> QuoteStack, err |-> y.err, raw |-> y.raw]

\* A call of Parser.Scan.
CallParserScan ==
    /\ ret.err = NoError
    /\ CallParserScanOn(ParserScan(bs, Token, QuoteStack))

NextParser == CallParserScan

SpecParser == InitParser /\ [][NextParser]_vars

\* C13: every token Parser.Scan stores has From.Offset < To.Offset, its From
\* is where its first rune stands (blanks and comments in front of it are
\* outside the span), and it starts at or behind the end of the token stored
\* before it.
C13_TokenSpans ==
    (ret.op = "Parser.Scan" /\ ret.err = NoError) =>
        /\ Token.PosRange.From.Offset < Token.PosRange.To.Offset
        /\ Token.PosRange.From = ret.raw
        /\ bs.Buffer[Token.PosRange.From.Offset + 1] \notin Blanks
        /\ Token.PosRange.From.Offset >= ret.stored.PosRange.To.Offset

\* C14: an UnknownEscapeChar failure carries the position of the escape
\* rune it rejects, which is never the zero position: that rune is the one
\* the cursor has just moved over (an UnknownOperator failure likewise
\* carries the start of its mark sequence).
C14_FailurePosition ==
    (/\ ret.op = "ScanToken"
     /\ ret.err.type = "UnknownEscapeCharError"
     /\ ret.err.Char # NUL) =>
        /\ ret.err.Pos # ZeroPosition
        /\ ret.err.Pos.Offset \in {bs.Position.Offset - 1, bs.Position.Offset}
        /\ bs.Buffer[bs.Position.Offset] = ret.err.Char

\* The offset of the k-th newline of a buffer, counted from 1 (0 stands for
\* the start of the buffer: the offset behind "the newline before the first").
NewlineOffsets(buffer) == {o \in 0..(Len(buffer) - 1) : buffer[o + 1] = NL}

NthNewline(buffer, k) ==
    CHOOSE o \in NewlineOffsets(buffer) :
        Cardinality({n \in NewlineOffsets(buffer) : n <= o}) = k

\* The text of source line k, counted from 1: the runes between the newline
\* before it, or the start of the buffer, and the newline that completes it.
LineText(buffer, k) ==
    SubSeq(buffer,
           IF k = 1 THEN 1 ELSE NthNewline(buffer, k - 1) + 2,
           NthNewline(buffer, k))

\* C15: Lines has one entry for each newline Move has consumed and none
\* else, and entry k is the text of the line the k-th newline completes.
C15_LineTable ==
    /\ Len(bs.Lines) = Newlines(ret.consumed)
    /\ \A k \in 1..Len(bs.Lines) : bs.Lines[k] = LineText(bs.Buffer, k)

(***************************************************************************)
(* parser.go, the parser over the tokenizer of parser/scanner.go           *)
(* (type Parser struct { Scanner }).  A parsing operator takes the parser  *)
(* before the call as p = [bs, Token, err, node] and yields the parser     *)
(* after it: bs and Token are the embedded scanner's, err is the value the *)
(* call panicked with (NoError if it returned) and node is what it         *)
(* returned.  A node is a record with the fields of its ast struct and a   *)
(* type field naming the struct.                                           *)
(***************************************************************************)
NilNode == [type |-> "nil"]

\* What the calls of (parser) Scanner.Scan that follow one another from the
\* scanner b give, prev being the kind of the token before: for each call
\* the scanner after it and the token it stores, up to the call that panics,
\* which ends the sequence with the value it panics with.
RECURSIVE Scans(_, _)
ScansOn(y) ==
    IF y.err # NoError THEN <<[bs |-> y.bs, tok |-> ZeroToken, err |-> y.err]>>
    ELSE <<[bs |-> y.bs, tok |-> y.tok, err |-> NoError]>>
             \o Scans(y.bs, y.tok.Kind)

Scans(b, prev) == ScansOn(TokenizerScanToken(b, prev, <<>>))

\* The parser with scanner b and current token tok; rest is what its coming
\* calls of Scan give.
Parser(b, tok) ==
    [bs |-> b, Token |-> tok, rest |-> Scans(b, tok.Kind), err |-> NoError,
     node |-> NilNode]

\* panic(err)
Raise(p, err) == [p EXCEPT !.err = err, !.node = NilNode]

\* return node
Return(p, node) == [p EXCEPT !.node = node]

\* The statements after a call: skipped when the call panicked.
Then(r, Rest(_)) == IF r.err # NoError THEN r ELSE Rest(r)

ScanNextOn(p, y) ==
    IF y.err # NoError THEN Raise([p EXCEPT !.bs = y.bs], y.err)
    ELSE [p EXCEPT !.bs = y.bs, !.Token = y.tok, !.rest = Tail(@),
                   !.node = NilNode]

\* p.Scan(): (parser) Scanner.Scan on the embedded scanner.
ScanNext(p) == ScanNextOn(p, Head(p.rest))

UnexpectedNodeError(node, expect) ==
    [type |-> "UnexpectedNodeError", Node |-> node, Expect |-> expect]

\* Go's runtime panic on an array index out of range.
IndexPanic == Panic("index out of range")

\* node.GetPosRange(): Ident and LiteralValue embed their Token.
GetPosRange(node) ==
    IF "PosRange" \in DOMAIN node THEN node.PosRange ELSE node.Token.PosRange

\* PosRange{From: begin, To: p.Position}
UpTo(begin, p) == [From |-> begin, To |-> p.bs.Position]

\* token.PrefixUnaryOperators[kind]
PrefixUnaryOperators(kind) == kind \in {"MUL", "AND", "ADD"}

\* token.PostfixUnaryOperators[kind]
PostfixUnaryOperators(kind) == kind \in {"INC", "DEC"}

\* token.BinaryOperators: an array of eight ints, written without keys, so
\* that MUL stands at index 0 and token_end at index 7.
BinaryOperators ==
    <<"MUL", "QUO", "REM", "ADD", "SUB", "SHL", "SHR", "token_end">>

\* token.IsOperator: both comparisons are against OPERATOR_BEGIN.
IsOperator(kind) ==
    Ord("OPERATOR_BEGIN") < Ord(kind) /\ Ord(kind) < Ord("OPERATOR_BEGIN")

RECURSIVE MatchTermsFrom(_, _, _)
MatchTermsFrom(p, terms, i) ==
    IF i > Len(terms) THEN p
    ELSE IF p.Token.Kind # terms[i]
    THEN Raise(p, UnexpectedNodeError(p.Token, terms))
    ELSE Then(ScanNext(p), LAMBDA s : MatchTermsFrom(s, terms, i + 1))

MatchTerms(p, terms) == MatchTermsFrom(p, terms, 1)

ExpectIdent(p) ==
    IF p.Token.Kind # "IDENT"
    THEN Raise(p, UnexpectedNodeError(p.Token, <<"IDENT">>))
    ELSE Then(ScanNext(p),
              LAMBDA s : Return(s, [type |-> "Ident", Token |-> p.Token]))

\* The lists: the operator's last argument is the function's named result,
\* which is nil (<<>>) when the function is called.
RECURSIVE ExpectIdentList(_, _, _)
ExpectIdentList(p, terminator, idents) ==
    Then(ExpectIdent(p), LAMBDA i :
        IF i.Token.Kind = "COMMA"
        THEN Then(ScanNext(i), LAMBDA s :
                 IF s.Token.Kind = terminator
                 THEN Return(s, Append(idents, i.node))
                 ELSE ExpectIdentList(s, terminator, Append(idents, i.node)))
        ELSE Return(i, Append(idents, i.node)))


RECURSIVE ExpectFuncType(_), ExpectFuncDecl(_), ExpectStructType(_)
RECURSIVE ExpectType(_), ExpectExpr(_)
RECURSIVE ExpectStmtBlockExpr(_), ExpectExprList(_, _, _)

ExpectTraitType(p) == Return(p, [type |-> "TraitType"])

ExpectType(p) ==
    CASE p.Token.Kind = "FUNC" -> Then(ScanNext(p), LAMBDA s : ExpectFuncType(s))
      [] p.Token.Kind = "STRUCT" -> ExpectStructType(p)
      [] p.Token.Kind = "TRAIT" -> ExpectTraitType(p)
      [] p.Token.Kind = "IDENT" ->
            Then(ExpectIdent(p),
                 LAMBDA i : Return(i, [type |-> "TypeAlias", Ident |-> i.node]))
      [] OTHER ->
            Raise(p, UnexpectedNodeError(p.Token, <<"STRUCT", "TRAIT", "IDENT">>))

RECURSIVE ExpectTypeList(_, _, _)
ExpectTypeList(p, terminator, types) ==
    Then(ExpectType(p), LAMBDA t :
        IF t.Token.Kind # "COMMA" THEN Return(t, Append(types, t.node))
        ELSE Then(ScanNext(t), LAMBDA s :
                 ExpectTypeList(s, terminator, Append(types, t.node))))


ExpectGenDecl(p) ==
    Then(ExpectIdentList(p, "ILLEGAL", <<>>), LAMBDA i :
        Then(ExpectType(i), LAMBDA t :
            Return(t, [type |-> "GenDecl",
                       PosRange |-> UpTo(p.Token.PosRange.From, t),
                       Idents |-> i.node, Type |-> t.node])))

RECURSIVE ExpectGenDeclList(_, _, _)
ExpectGenDeclList(p, terminator, genDecls) ==
    Then(ExpectGenDecl(p), LAMBDA g :
        IF g.Token.Kind = "COMMA"
        THEN Then(ScanNext(g), LAMBDA s :
                 IF s.Token.Kind = terminator
                 THEN Return(s, Append(genDecls, g.node))
                 ELSE ExpectGenDeclList(s, terminator, Append(genDecls, g.node)))
        ELSE Return(g, Append(genDecls, g.node)))


\* The switch of ExpectFuncType behind the parameter list: the result types.
FuncResults(p) ==
    IF p.Token.Kind = "LPAREN"
    THEN Then(ScanNext(p), LAMBDA s :
             Then(ExpectTypeList(s, "RPAREN", <<>>), LAMBDA t :
                 Then(MatchTerms(t, <<"RPAREN">>),
                      LAMBDA m : Return(m, t.node))))
    ELSE Then(ExpectFuncType(p), LAMBDA f : Return(f, <<f.node>>))

ExpectFuncType(p) ==
    Then(MatchTerms(p, <<"LPAREN">>), LAMBDA a :
        Then(IF a.Token.Kind = "IDENT"
             THEN ExpectGenDeclList(a, "ILLEGAL", <<>>)
             ELSE Return(a, <<>>), LAMBDA g :
            Then(MatchTerms(g, <<"RPAREN">>), LAMBDA m :
                Then(FuncResults(m), LAMBDA r :
                    Return(r, [type |-> "FuncType",
                               PosRange |-> UpTo(p.Token.PosRange.From, r),
                               Params |-> g.node, Results |-> r.node])))))

ExpectFuncDecl(p) ==
    Then(MatchTerms(p, <<"FUNC">>), LAMBDA f :
        Then(IF f.Token.Kind = "IDENT" THEN ExpectIdent(f)
             ELSE Return(f, NilNode), LAMBDA i :
            Then(ExpectFuncType(i), LAMBDA t :
                Then(IF t.Token.Kind = "LBRACE" THEN ExpectStmtBlockExpr(t)
                     ELSE Return(t, NilNode), LAMBDA b :
                    Return(b, [type |-> "FuncDecl",
                               PosRange |-> UpTo(p.Token.PosRange.From, b),
                               Type |-> t.node, Ident |-> i.node,
                               Stmt |-> b.node])))))

\* The loop of ExpectStructType over the field declarations.
RECURSIVE StructFields(_, _)
StructFields(p, fields) ==
    IF p.Token.Kind # "IDENT" THEN Return(p, fields)
    ELSE Then(ExpectIdentList(p, "RPAREN", <<>>), LAMBDA i :
        IF i.Token.Kind = "SEMICOLON"
        THEN IF Len(i.node) # 1
             THEN Raise(i, UnexpectedNodeError(i.Token, <<>>))
             ELSE Then(ScanNext(i), LAMBDA s :
                      StructFields(s, Append(fields,
                          [type |-> "GenDecl", PosRange |-> ZeroPosRange,
                           Idents |-> <<>>,
                           Type |-> [type |-> "TypeAlias", Ident |-> i.node[1]]])))
        ELSE Then(ExpectType(i), LAMBDA t :
                 Then(MatchTerms(t, <<"SEMICOLON">>), LAMBDA s :
                     StructFields(s, Append(fields,
                         [type |-> "GenDecl", PosRange |-> ZeroPosRange,
                          Idents |-> i.node, Type |-> t.node])))))

ExpectStructType(p) ==
    Then(MatchTerms(p, <<"STRUCT", "LBRACE">>), LAMBDA b :
        Then(StructFields(b, <<>>), LAMBDA f :
            Then(MatchTerms(f, <<"RBRACE">>), LAMBDA m :
                Return(m, [type |-> "StructType",
                           PosRange |-> UpTo(p.Token.PosRange.From, m),
                           Fields |-> f.node]))))

ExpectOperator(p) ==
    IF ~IsOperator(p.Token.Kind)
    THEN Raise(p, UnexpectedNodeError(p.Token, <<"OPERATOR_BEGIN">>))
    ELSE Then(ScanNext(p), LAMBDA s : Return(s, p.Token))

ExpectLiteralValue(p) ==
    Then(ScanNext(p),
         LAMBDA s : Return(s, [type |-> "LiteralValue", Token |-> p.Token]))

ExpectIndexExpr(p, expr) ==
    Then(MatchTerms(p, <<"LBRACK">>), LAMBDA b :
        Then(ExpectExpr(b), LAMBDA i :
            Then(MatchTerms(i, <<"RBRACK">>), LAMBDA m :
                Return(m, [type |-> "IndexExpr",
                           PosRange |-> UpTo(p.Token.PosRange.From, m),
                           Expr |-> expr, Index |-> i.node]))))

\* The MemberSelectExpr returned is given no Expr: expr is not used.
ExpectMemberSelectExpr(p, expr) ==
    Then(MatchTerms(p, <<"MEMBER_SELECT">>), LAMBDA d :
        Then(ExpectIdent(d), LAMBDA m :
            Return(m, [type |-> "MemberSelectExpr",
                       PosRange |-> UpTo(p.Token.PosRange.From, m),
                       Member |-> m.node, Expr |-> NilNode])))

ExpectCallExpr(p, callee) ==
    Then(MatchTerms(p, <<"LPAREN">>), LAMBDA b :
        Then(ExpectExprList(b, "RPAREN", <<>>), LAMBDA l :
            Then(MatchTerms(l, <<"RPAREN">>), LAMBDA m :
                Return(m, [type |-> "CallExpr",
                           PosRange |-> UpTo(p.Token.PosRange.From, m),
                           Callee |-> callee, Params |-> l.node]))))

\* The closure newExpr of LookAheadLeftAssociativeOperatorAndExpr: the node
\* NilNode is its nil.
NewExpr(p, expr) ==
    CASE p.Token.Kind = "MEMBER_SELECT" -> ExpectMemberSelectExpr(p, expr)
      [] p.Token.Kind = "LBRACK" -> ExpectIndexExpr(p, expr)
      [] p.Token.Kind = "LPAREN" -> ExpectCallExpr(p, expr)
      [] OTHER ->
            IF PostfixUnaryOperators(p.Token.Kind)
            THEN Then(ExpectOperator(p), LAMBDA o :
                     Return(o, [type |-> "UnaryExpr",
                                PosRange |-> [From |-> GetPosRange(expr).From,
                                              To |-> o.node.PosRange.To],
                                Operator |-> o.node, Expr |-> expr]))
            ELSE Return(p, NilNode)

RECURSIVE LookAheadLeftAssociativeOperatorAndExpr(_, _)
LookAheadLeftAssociativeOperatorAndExpr(p, expr) ==
    Then(NewExpr(p, expr), LAMBDA n :
        IF n.node = NilNode THEN Return(n, expr)
        ELSE LookAheadLeftAssociativeOperatorAndExpr(n, n.node))

\* The closure expr of ExpectLeftAssociativeExpr: the primary expression.
PrimaryExpr(p) ==
    IF IsLiteralValue(p.Token.Kind) THEN ExpectLiteralValue(p)
    ELSE CASE p.Token.Kind = "IDENT" -> ExpectIdent(p)
           [] p.Token.Kind = "FUNC" -> ExpectFuncDecl(p)
           [] p.Token.Kind = "LPAREN" ->
                Then(ScanNext(p), LAMBDA s :
                    Then(ExpectExpr(s), LAMBDA e :
                        Then(MatchTerms(e, <<"RPAREN">>),
                             LAMBDA m : Return(m, e.node))))
           [] OTHER -> Raise(p, UnexpectedNodeError(p.Token, <<>>))

ExpectLeftAssociativeExpr(p) ==
    Then(PrimaryExpr(p),
         LAMBDA e : LookAheadLeftAssociativeOperatorAndExpr(e, e.node))

ExpectPrefixUnaryExpr(p) ==
    Then(ExpectOperator(p), LAMBDA o :
        Then(ExpectLeftAssociativeExpr(o), LAMBDA e :
            Return(e, [type |-> "UnaryExpr",
                       PosRange |-> UpTo(p.Token.PosRange.From, e),
                       Operator |-> o.node, Expr |-> e.node])))

ExpectShortExpr(p) ==
    IF PrefixUnaryOperators(p.Token.Kind) THEN ExpectPrefixUnaryExpr(p)
    ELSE ExpectLeftAssociativeExpr(p)

\* if token.BinaryOperators[p.Token.Kind] != 0 { return p.ExpectBinaryExpr(expr) }
\* return expr: the index is the kind itself, and the array ends at index 7.
RECURSIVE ExpectBinaryExpr(_, _)
BinaryOrReturn(p, expr) ==
    IF Ord(p.Token.Kind) >= Len(BinaryOperators) THEN Raise(p, IndexPanic)
    ELSE IF Ord(BinaryOperators[Ord(p.Token.Kind) + 1]) # 0
    THEN ExpectBinaryExpr(p, expr)
    ELSE Return(p, expr)

ExpectBinaryExpr(p, exprL) ==
    Then(ExpectOperator(p), LAMBDA o :
        Then(ExpectShortExpr(o), LAMBDA r :
            BinaryOrReturn(r, [type |-> "BinaryExpr",
                               PosRange |-> [From |-> GetPosRange(exprL).From,
                                             To |-> GetPosRange(r.node).To],
                               Operator |-> o.node,
                               Exprs |-> <<exprL, r.node>>])))

ExpectExpr(p) == Then(ExpectShortExpr(p), LAMBDA e : BinaryOrReturn(e, e.node))

ExpectExprList(p, terminator, exprs) ==
    CASE p.Token.Kind = "COMMA" ->
            Then(ScanNext(p), LAMBDA s :
                IF s.Token.Kind = terminator THEN Return(s, exprs)
                ELSE ExpectExprList(s, terminator, exprs))
      [] p.Token.Kind = terminator -> Return(p, exprs)
      [] OTHER ->
            Then(ExpectExpr(p), LAMBDA e :
                ExpectExprList(e, terminator, Append(exprs, e.node)))


ExpectReturnStmt(p) ==
    Then(MatchTerms(p, <<"RETURN">>), LAMBDA r :
        Then(ExpectExprList(r, "ILLEGAL", <<>>), LAMBDA l :
            Return(l, [type |-> "ReturnStmt",
                       PosRange |-> UpTo(p.Token.PosRange.From, l),
                       Exprs |-> l.node])))

\* ExpectStmt returns the block of a statement that starts with `{` and nil
\* otherwise; it parses nothing unless the statement starts with `{` or
\* `return`.
ExpectStmt(p) ==
    CASE p.Token.Kind = "LBRACE" -> ExpectStmtBlockExpr(p)
      [] p.Token.Kind = "RETURN" ->
            Then(ExpectReturnStmt(p), LAMBDA r : Return(r, NilNode))
      [] OTHER -> Return(p, NilNode)

\* The call never returns: its loop no longer moves the cursor.
Hang == [type |-> "hang"]

\* The loop of ExpectStmtBlockExpr.  A statement that consumes no token leaves
\* the loop where it was, and the loop then runs for ever.
RECURSIVE StmtLoop(_, _)
StmtLoop(p, stmts) ==
    IF p.Token.Kind = "RBRACE" THEN Return(p, stmts)
    ELSE Then(ExpectStmt(p), LAMBDA s :
             IF s.bs = p.bs THEN Raise(s, Hang)
             ELSE StmtLoop(s, Append(stmts, s.node)))

ExpectStmtBlockExpr(p) ==
    Then(MatchTerms(p, <<"LBRACE">>), LAMBDA b :
        Then(StmtLoop(b, <<>>), LAMBDA l :
            Return(l, [type |-> "StmtBlockExpr",
                       PosRange |-> UpTo(p.bs.Position, l),
                       Stmts |-> l.node])))

\* ExpectImportDecl from the alias on: begin is the From of the `import`.
ImportDeclOn(begin, a, alias) ==
    Then(ExpectLiteralValue(a), LAMBDA l :
        IF l.node.Token.Kind # "STRING"
        THEN Raise(l, UnexpectedNodeError(l.node, <<"STRING">>))
        ELSE Return(l, [type |-> "ImportDecl", PosRange |-> UpTo(begin, l),
                        CanonicalName |-> l.node, Alias |-> alias]))

\* ExpectImportDecl without the test of lit.Kind.
ExpectImportDecl_AnyLiteral(p) ==
    Then(MatchTerms(p, <<"IMPORT">>), LAMBDA m :
        Then(ExpectLiteralValue(m), LAMBDA l :
            Return(l, [type |-> "ImportDecl",
                       PosRange |-> UpTo(p.Token.PosRange.From, l),
                       CanonicalName |-> l.node, Alias |-> NilNode])))

ExpectImportDecl(p) ==
    Then(MatchTerms(p, <<"IMPORT">>), LAMBDA m :
        IF m.Token.Kind = "IDENT"
        THEN Then(ExpectIdent(m), LAMBDA i :
                 ImportDeclOn(p.Token.PosRange.From, i, i.node))
        ELSE ImportDeclOn(p.Token.PosRange.From, m, NilNode))

(***************************************************************************)
(* The parser over source buffers, used as the tests of parser_test.go use *)
(* it: Scan is called to make the first token current, and a parsing       *)
(* method is then called on the current token.  ret keeps the call, the    *)
(* scanner and the current token it started from, and what it returned or  *)
(* panicked with.  The buffers are every concatenation of at most          *)
(* MaxSyntaxLexemes expression lexemes, and a list of further texts.        *)
(***************************************************************************)
MaxSyntaxLexemes == 4

ExprLexemes ==
    { <<"a">>, <<"1">>, <<NL>>, <<" ">>, <<"+">>, <<"*">>, <<".", "A">>,
      <<"+", "+">> }

RECURSIVE ExprBuffers(_)
ExprBuffers(n) ==
    IF n = 0 THEN {<<>>}
    ELSE LET P == ExprBuffers(n - 1)
         IN  P \cup {p \o l : p \in P, l \in ExprLexemes}

SyntaxTexts ==
    { <<"s", "t", "r", "u", "c", "t", "{", "a", " ", "U", NL, "}", NL>>,
      <<"s", "t", "r", "u", "c", "t", " ", "{", NL, "a", ",", "b", " ", "U", NL,
        "U", NL, "}", NL>>,
      <<"s", "t", "r", "u", "c", "t", "{", "a", ",", "b", NL, "}", NL>>,
      <<"s", "t", "r", "u", "c", "t", " ", "a", NL>>,
      <<"f", "u", "n", "(", "a", " ", "U", ")", "(", "U", ")", NL>>,
      <<"f", "u", "n", " ", "(", "a", ",", "b", " ", "U", ",", "a", " ", "U", ")",
        " ", "(", "U", ",", "U", ")", NL>>,
      <<"f", "u", "n", "(", ")", "(", "U", ")", NL>>,
      <<"f", "u", "n", " ", "a", NL>>,
      <<"t", "r", "a", "i", "t", " ", "a", NL>>,
      <<"U", " ", "a", NL>>,
      <<"(", "a", ")", NL>>,
      <<"a", "(", "a", ")", NL>>,
      <<"a", "[", "1", "]", NL>>,
      <<"-", "a", NL>>,
      <<"!", "a", NL>>,
      <<"-", "-", "a", NL>>,
      <<"a", "-", "-", NL>>,
      <<"i", "m", "p", "o", "r", "t", " ", "\"", "s", "\"", " ", "1">>,
      <<"i", "m", "p", "o", "r", "t", " ", "a", " ", "\"", "s", "\"", " ", "1">>,
      <<"i", "m", "p", "o", "r", "t", " ", "1", " ", "1">>,
      <<"i", "m", "p", "o", "r", "t", " ", "a", " ", "1", " ", "1">>,
      <<"i", "m", "p", "o", "r", "t", " ", "\"", "s", "\"", NL>>,
      <<"i", "m", "p", "o", "r", "t", " ", "\"", "s", "\"">>,
      <<"i", "m", "p", "o", "r", "t", " ", "1">>,
      <<"i", "m", "p", "o", "r", "t", " ", "a", " ", "1">> }

SyntaxBuffers == ExprBuffers(MaxSyntaxLexemes) \cup SyntaxTexts

InitSyntax ==
    /\ bs \in {NewBufferScanner(b) : b \in SyntaxBuffers}
    /\ Token = ZeroToken
    /\ QuoteStack = <<>>
    /\ Diagnosis = <<>>
    /\ ret = NoCall

CallOn(op, r) ==
    /\ ret.op # "none"
    /\ ~ret.panicked
    /\ bs' = r.bs
    /\ Token' = r.Token
    /\ ret' = [op |-> op, before |-> bs, cur |-> Token, node |-> r.node,
               err |-> r.err, panicked |-> r.err # NoError]
    /\ UNCHANGED <<QuoteStack, Diagnosis>>

\* A call of Parser.ExpectExpr.
CallExpectExpr == CallOn("ExpectExpr", ExpectExpr(Parser(bs, Token)))

\* A call of Parser.ExpectShortExpr.
CallExpectShortExpr ==
    CallOn("ExpectShortExpr", ExpectShortExpr(Parser(bs, Token)))

\* A call of Parser.ExpectLeftAssociativeExpr.
CallExpectLeftAssociativeExpr ==
    CallOn("ExpectLeftAssociativeExpr",
           ExpectLeftAssociativeExpr(Parser(bs, Token)))

\* A call of Parser.ExpectType.
CallExpectType == CallOn("ExpectType", ExpectType(Parser(bs, Token)))

CallExpectImportDecl ==
    CallOn("ExpectImportDecl", ExpectImportDecl(Parser(bs, Token)))

NextSyntax ==
    \/ Scan
    \/ CallExpectExpr
    \/ CallExpectShortExpr
    \/ CallExpectLeftAssociativeExpr
    \/ CallExpectType
    \/ CallExpectImportDecl

SpecSyntax == InitSyntax /\ [][NextSyntax]_vars

(***************************************************************************)
(* What the properties of the parser speak about: the tokens in front of   *)
(* a parsing call, which are the current token and the tokens the calls of *)
(* Scan behind it give, and the nodes spelled by single tokens.            *)
(***************************************************************************)
TokensOf(scans) ==
    [i \in 1..Len(SelectSeq(scans, LAMBDA y : y.err = NoError)) |-> scans[i].tok]

TokensAhead == <<ret.cur>> \o TokensOf(Scans(ret.before, ret.cur.Kind))

ParsingOps ==
    {"ExpectExpr", "ExpectShortExpr", "ExpectLeftAssociativeExpr", "ExpectType",
     "ExpectImportDecl"}

\* The kinds of * / % + - << >> & | ^ && || == != < <= > >=.
BinarySet ==
    {"MUL", "QUO", "REM", "ADD", "SUB", "SHL", "SHR", "AND", "OR", "XOR",
     "LAND", "LOR", "EQL", "NEQ", "LSS", "LEQ", "GTR", "GEQ"}

\* The kinds of * & + - ! ++ -- (the tokens have no kind for ~).
PrefixSet == {"MUL", "AND", "ADD", "SUB", "NOT", "INC", "DEC"}

\* The kinds a suffix starts with: . [ ( ++ --.
SuffixSet == {"MEMBER_SELECT", "LBRACK", "LPAREN", "INC", "DEC"}

\* The kinds of the primary expressions of one token.
LeafKinds == {"IDENT"} \cup LiteralKinds

Leaf(tok) ==
    IF tok.Kind = "IDENT" THEN [type |-> "Ident", Token |-> tok]
    ELSE [type |-> "LiteralValue", Token |-> tok]

\* The number of pairs (operator, one-token expression) in T from index i on.
RECURSIVE BinaryRun(_, _)
BinaryRun(T, i) ==
    IF Len(T) >= i + 1 /\ T[i].Kind \in BinarySet /\ T[i + 1].Kind \in LeafKinds
    THEN 1 + BinaryRun(T, i + 2)
    ELSE 0

\* node is the left-nested tree of T[1] op T[3] ... op T[2k+1].
RECURSIVE IsLeftNested(_, _, _)
IsLeftNested(node, T, k) ==
    IF k = 0 THEN node = Leaf(T[1])
    ELSE /\ node.type = "BinaryExpr"
         /\ node.Operator = T[2 * k]
         /\ node.Exprs[2] = Leaf(T[2 * k + 1])
         /\ IsLeftNested(node.Exprs[1], T, k - 1)

C16_On(T, n) ==
    (/\ T[1].Kind \in LeafKinds
     /\ Len(T) >= 2 * n + 2
     /\ T[2 * n + 2].Kind \notin BinarySet \cup SuffixSet) =>
        /\ ~ret.panicked
        /\ IsLeftNested(ret.node, T, n)
        /\ Token = T[2 * n + 2]

\* C16: ExpectExpr, called in front of the tokens e1 op1 e2 ... opn e(n+1)
\* (here every e one identifier or literal, every op of the binary set, n >= 0)
\* and a token that is no binary operator, returns the left-nested tree
\* (((e1 op1 e2) op2 e3) ... opn e(n+1)) and leaves that token current; for
\* n = 0 it returns e1 and consumes nothing more.
C16_LeftNestedBinary ==
    ret.op = "ExpectExpr" => C16_On(TokensAhead, BinaryRun(TokensAhead, 2))

C17_On(T) ==
    /\ (/\ T[1].Kind \in PrefixSet
        /\ Len(T) >= 3
        /\ T[2].Kind \in LeafKinds
        /\ T[3].Kind \notin SuffixSet) =>
            /\ ~ret.panicked
            /\ ret.node.type = "UnaryExpr"
            /\ ret.node.Operator = T[1]
            /\ ret.node.Expr = Leaf(T[2])
            /\ Token = T[3]
    /\ (/\ T[1].Kind \in LeafKinds
        /\ Len(T) >= 2
        /\ T[2].Kind \notin SuffixSet) =>
            /\ ~ret.panicked
            /\ ret.node = Leaf(T[1])
            /\ Token = T[2]

\* C17: ExpectShortExpr, called on one of the prefix operators * & + - ! ++
\* -- in front of a primary expression (here one identifier or literal with
\* no suffix), consumes the operator and returns a UnaryExpr of that operator
\* and that expression; called on a primary expression it returns it and
\* consumes no operator.
C17_PrefixUnary == ret.op = "ExpectShortExpr" => C17_On(TokensAhead)

\* The number of pairs (`.`, identifier) in T from index i on.
RECURSIVE MemberRun(_, _)
MemberRun(T, i) ==
    IF Len(T) >= i + 1 /\ T[i].Kind = "MEMBER_SELECT" /\ T[i + 1].Kind = "IDENT"
    THEN 1 + MemberRun(T, i + 2)
    ELSE 0

\* node is the selection T[1] . T[3] ... . T[2k+1], each selection based on
\* the one before it.
RECURSIVE IsMemberChain(_, _, _)
IsMemberChain(node, T, k) ==
    IF k = 0 THEN node = Leaf(T[1])
    ELSE /\ node.type = "MemberSelectExpr"
         /\ node.Member = Leaf(T[2 * k + 1])
         /\ IsMemberChain(node.Expr, T, k - 1)

C18_On(T, k) ==
    (/\ T[1].Kind = "IDENT"
     /\ k >= 1
     /\ Len(T) >= 2 * k + 2
     /\ T[2 * k + 2].Kind \in BinarySet) =>
        /\ ~ret.panicked
        /\ IsMemberChain(ret.node, T, k)
        /\ Token = T[2 * k + 2]

\* C18: ExpectLeftAssociativeExpr, called in front of x . A . B (one or more
\* selections) and a binary operator, returns the MemberSelectExpr of the
\* last member whose base expression is the MemberSelectExpr of the
\* selections before it, down to the Ident x, and leaves the binary operator
\* current.
C18_SuffixChain ==
    ret.op = "ExpectLeftAssociativeExpr" =>
        C18_On(TokensAhead, MemberRun(TokensAhead, 2))

\* The identifiers of a declaration and the name of its type, as spelled.
Spelled(genDecl) ==
    [Idents |-> [i \in 1..Len(genDecl.Idents) |-> genDecl.Idents[i].Token.Literal],
     Type |-> IF genDecl.Type.type = "TypeAlias"
              THEN genDecl.Type.Ident.Token.Literal ELSE <<genDecl.Type.type>>]

SpelledAll(genDecls) == [i \in 1..Len(genDecls) |-> Spelled(genDecls[i])]

\* Struct types as source text, with the fields they declare: `struct{a U`
\* newline `}`, and `struct {` newline `a,b U` newline `U` newline `}`.
StructTexts ==
    { [text |-> <<"s", "t", "r", "u", "c", "t", "{", "a", " ", "U", NL, "}", NL>>,
       fields |-> <<[Idents |-> <<<<"a">>>>, Type |-> <<"U">>]>>],
      [text |-> <<"s", "t", "r", "u", "c", "t", " ", "{", NL, "a", ",", "b", " ",
                  "U", NL, "U", NL, "}", NL>>,
       fields |-> <<[Idents |-> <<<<"a">>, <<"b">>>>, Type |-> <<"U">>],
                    [Idents |-> <<>>, Type |-> <<"U">>]>>] }

\* `struct{a,b` newline `}`: two identifiers and the SEMICOLON at once.
StructRejected ==
    <<"s", "t", "r", "u", "c", "t", "{", "a", ",", "b", NL, "}", NL>>

\* C19: ExpectStructType (here reached from ExpectType on the token struct)
\* returns one GenDecl for each field declaration, in source order:
\* `i1, ..., ik T` SEMICOLON gives the idents i1..ik and the type T, one
\* identifier and SEMICOLON gives no idents and the TypeAlias of the
\* identifier; two identifiers and SEMICOLON are rejected with UnexpectedNode.
C19_StructFields ==
    (ret.op = "ExpectType" /\ ret.cur.Kind = "STRUCT"
        /\ ret.before.Position.Offset = 6) =>
        /\ \A c \in StructTexts :
              ret.before.Buffer = c.text =>
                  /\ ~ret.panicked
                  /\ ret.node.type = "StructType"
                  /\ SpelledAll(ret.node.Fields) = c.fields
        /\ ret.before.Buffer = StructRejected =>
              ret.err.type = "UnexpectedNodeError"

\* Function types as source text behind `fun`, with the parameters they
\* declare and the number of their results: `fun(a U)(U)` and
\* `fun (a,b U,a U) (U,U)`, each before a newline.
FuncTexts ==
    { [text |-> <<"f", "u", "n", "(", "a", " ", "U", ")", "(", "U", ")", NL>>,
       params |-> <<[Idents |-> <<<<"a">>>>, Type |-> <<"U">>]>>,
       results |-> 1],
      [text |-> <<"f", "u", "n", " ", "(", "a", ",", "b", " ", "U", ",", "a", " ",
                  "U", ")", " ", "(", "U", ",", "U", ")", NL>>,
       params |-> <<[Idents |-> <<<<"a">>, <<"b">>>>, Type |-> <<"U">>],
                    [Idents |-> <<<<"a">>>>, Type |-> <<"U">>]>>,
       results |-> 2] }

\* C20: ExpectFuncType (here reached from ExpectType on the token fun), in
\* front of `( G1, ..., Gm ) ( T1, ..., Tn )`, returns a FuncType with m
\* parameter GenDecls, the identifiers sharing a type grouped in source
\* order, and n result types, and leaves current the first token behind the
\* `)` that closes the results (here the SEMICOLON of the newline).
C20_FuncType ==
    (ret.op = "ExpectType" /\ ret.cur.Kind = "FUNC"
        /\ ret.before.Position.Offset = 3) =>
        \A c \in FuncTexts :
            ret.before.Buffer = c.text =>
                /\ ~ret.panicked
                /\ ret.node.type = "FuncType"
                /\ SpelledAll(ret.node.Params) = c.params
                /\ Len(ret.node.Results) = c.results
                /\ Token.Kind = "SEMICOLON"

\* The rune the raw token of the last Parser.Scan starts with.
ScannedRune == bs.Buffer[ret.raw.Offset + 1]

\* The closer of an opener, and the kind of a closer.
CloserOf(ch) == IF ch \in {"(", ")"} THEN "RPAREN" ELSE "RBRACE"

\* C25: scanning `{` or `(` pushes RBRACE or RPAREN on the bracket stack and
\* nothing else; scanning the closer that is on top of the stack removes
\* exactly that entry, without an out-of-range access, so that the stack
\* holds one closer for each opener not yet closed, innermost last.
C25_BracketStack ==
    (ret.op = "Parser.Scan" /\ ret.err.type \in {"nil", "panic"}) =>
        /\ ScannedRune \in {"(", "{"} =>
              /\ ret.err = NoError
              /\ QuoteStack = Append(ret.stack, CloserOf(ScannedRune))
        /\ (/\ ScannedRune \in {")", "}"}
            /\ ret.stack # <<>>
            /\ ret.stack[Len(ret.stack)] = CloserOf(ScannedRune)) =>
              /\ ret.err = NoError
              /\ QuoteStack = SubSeq(ret.stack, 1, Len(ret.stack) - 1)


(***************************************************************************)
(* parser.go: Report, ReportAndRecover, MatchTerm and ExpectList of the    *)
(* parser that keeps a QuoteStack.  q is the parser: its scanner, Token,   *)
(* QuoteStack and Diagnosis, the panic it raised (err) and what the call   *)
(* returned (node).                                                        *)
(***************************************************************************)
\* stack.Top
Top(arr) == arr[Len(arr)]

Parser2(b, tok, st, ds) ==
    [bs |-> b, Token |-> tok, QuoteStack |-> st, Diagnosis |-> ds,
     err |-> NoError, node |-> NilNode]

\* p.Scan() inside a method of the parser.
Scan2On(q, y) ==
    [q EXCEPT !.bs = y.bs, !.Token = y.Token, !.QuoteStack = y.QuoteStack,
              !.err = y.err]

Scan2(q) == Scan2On(q, ParserScan(q.bs, q.Token, q.QuoteStack))

\* diagnosis.Diagnosis{Kind: UnexpectedNode, Error: UnexpectedNodeError{..}}
UnexpectedNode(have, want) ==
    [Kind |-> "UnexpectedNode", Error |-> [Have |-> have, Want |-> want]]

\* Parser.Report
Report(q, d) == [q EXCEPT !.Diagnosis = Append(@, d)]

\* for p.Token.Kind != term { p.Scan() }
RECURSIVE Recover(_, _)
Recover(q, term) ==
    IF q.Token.Kind = term THEN q
    ELSE Then(Scan2(q), LAMBDA s : Recover(s, term))

\* Parser.ReportAndRecover
ReportAndRecover(q, d) ==
    IF Len(q.QuoteStack) # 0
    THEN Recover(Report(q, d), Top(q.QuoteStack))
    ELSE Report(q, d)

\* Parser.MatchTerm
MatchTerm(q, term) ==
    IF q.Token.Kind # term
    THEN Report(q, UnexpectedNode(q.Token, term))
    ELSE q

\* The expectFunc the list is read with: the element is the current token,
\* and the function consumes it.
ExpectElement(q) == [Scan2(q) EXCEPT !.node = q.Token]

\* The loop of ExpectList.  A pass that leaves the parser as it found it is
\* followed by the same pass for ever: the call does not return (Hang).
RECURSIVE ListLoop(_, _, _, _, _)
ListLoop(q, begin, list, delimiter, terminate) ==
    CASE q.Token.Kind = delimiter ->
           IF MatchTerm(q, delimiter) = q THEN Raise(q, Hang)
           ELSE ListLoop(MatchTerm(q, delimiter), begin, list, delimiter,
                         terminate)
      [] q.Token.Kind = terminate ->
           Then(Scan2(q), LAMBDA s :
               Return(s, [type |-> "List",
                          PosRange |-> [From |-> begin, To |-> s.bs.Position],
                          List |-> list]))
      [] OTHER ->
           Then(ExpectElement(q), LAMBDA s :
               ListLoop(s, begin, Append(list, s.node), delimiter, terminate))

\* ExpectList
ExpectList(q, kind, delimiter, terminate) ==
    IF q.Token.Kind = delimiter
    THEN Then(ReportAndRecover(q, UnexpectedNode(q.Token, kind)), LAMBDA s :
             ListLoop(s, q.bs.Position, <<>>, delimiter, terminate))
    ELSE ListLoop(q, q.bs.Position, <<>>, delimiter, terminate)

(***************************************************************************)
(* Parser.Scan, ReportAndRecover and ExpectList (of identifiers, between   *)
(* commas, up to a closing parenthesis) are called until one panics or     *)
(* hangs, on every concatenation of at most MaxRecoverLexemes lexemes.     *)
(* ret keeps the cursor, the token, the stack and the diagnoses of before  *)
(* the call.  At most MaxDiagnoses diagnoses are reported.                 *)
(***************************************************************************)
MaxRecoverLexemes == 4
MaxDiagnoses == 2

RecoverLexemes ==
    { <<"a">>, <<" ">>, <<",">>, <<"(">>, <<")">>, <<"{">>, <<"}">> }

RECURSIVE RecoverBuffers(_)
RecoverBuffers(n) ==
    IF n = 0 THEN {<<>>}
    ELSE LET P == RecoverBuffers(n - 1)
         IN  P \cup {p \o l : p \in P, l \in RecoverLexemes}

InitRecover ==
    /\ bs \in {NewBufferScanner(b) : b \in RecoverBuffers(MaxRecoverLexemes)}
    /\ Token = ZeroToken
    /\ QuoteStack = <<>>
    /\ Diagnosis = <<>>
    /\ ret = [op |-> "none", at |-> ZeroPosition, stored |-> ZeroToken,
              stack |-> <<>>, diagnosis |-> <<>>, err |-> NoError,
              node |-> NilNode]

CallRecoverOn(op, q) ==
    /\ ret.err = NoError
    /\ bs' = q.bs
    /\ Token' = q.Token
    /\ QuoteStack' = q.QuoteStack
    /\ Diagnosis' = q.Diagnosis
    /\ ret' = [op |-> op, at |-> bs.Position, stored |-> Token,
               stack |-> QuoteStack, diagnosis |-> Diagnosis, err |-> q.err,
               node |-> q.node]

CallScan2 ==
    CallRecoverOn("Parser.Scan", Scan2(Parser2(bs, Token, QuoteStack, Diagnosis)))

CallReportAndRecover ==
    /\ Len(Diagnosis) < MaxDiagnoses
    /\ CallRecoverOn("ReportAndRecover",
           ReportAndRecover(Parser2(bs, Token, QuoteStack, Diagnosis),
                            UnexpectedNode(Token, "IDENT")))

CallExpectList ==
    /\ Len(Diagnosis) < MaxDiagnoses
    /\ CallRecoverOn("ExpectList",
           ExpectList(Parser2(bs, Token, QuoteStack, Diagnosis),
                      "IDENT", "COMMA", "RPAREN"))

NextRecover == CallScan2 \/ CallReportAndRecover \/ CallExpectList

SpecRecover == InitRecover /\ [][NextRecover]_vars

\* C26: a call of ReportAndRecover does not abort; it appends exactly one
\* diagnostic; with an empty bracket stack it consumes no token; with a
\* non-empty one the current token is, after the call, the closer that was on
\* top of the stack when the call began.
C26_Recovery ==
    ret.op = "ReportAndRecover" =>
        /\ ret.err = NoError
        /\ Len(Diagnosis) = Len(ret.diagnosis) + 1
        /\ SubSeq(Diagnosis, 1, Len(ret.diagnosis)) = ret.diagnosis
        /\ ret.stack = <<>> => (bs = [bs EXCEPT !.Position = ret.at]
                                /\ Token = ret.stored)
        /\ ret.stack # <<>> => Token.Kind = Top(ret.stack)

\* The terminator of the list stands at or behind the current token.
TerminatorAhead ==
    \E i \in 1 .. Len(bs.Buffer) :
        /\ bs.Buffer[i] = ")"
        /\ i > ret.stored.PosRange.From.Offset

\* C30: a call of ExpectList that begins at an element, on an input in which
\* the terminator occurs, returns or aborts: it does not loop for ever.
C30_ListTerminates ==
    (ret.op = "ExpectList" /\ ret.stored.Kind = "IDENT" /\ TerminatorAhead) =>
        ret.err # Hang


\* The nodes the suffix chain produces.
SuffixNodes == {"CallExpr", "IndexExpr", "MemberSelectExpr"}

\* The token in front of the current one, among the tokens of the call.
LastConsumed(T) == T[(CHOOSE j \in 2 .. Len(T) : T[j] = Token) - 1]

\* C24: a CallExpr, IndexExpr or MemberSelectExpr that
\* ExpectLeftAssociativeExpr returns begins where the expression it wraps
\* begins (at the token the call started on) and ends where its last token
\* (the closing delimiter or the member identifier) ends.
C24_SuffixRange ==
    (/\ ret.op = "ExpectLeftAssociativeExpr"
     /\ ~ret.panicked
     /\ ret.node.type \in SuffixNodes
     /\ \E j \in 2 .. Len(TokensAhead) : TokensAhead[j] = Token) =>
        /\ ret.node.PosRange.From = ret.cur.PosRange.From
        /\ ret.node.PosRange.To = LastConsumed(TokensAhead).PosRange.To


\* The token in canonical-name position of an import: the one behind
\* `import`, or behind the identifier that follows `import`.
NameIndex(T) == IF Len(T) >= 2 /\ T[2].Kind = "IDENT" THEN 3 ELSE 2

C29_On(T) ==
    /\ ~ret.panicked =>
          /\ ret.node.type = "ImportDecl"
          /\ ret.node.CanonicalName.Token.Kind = "STRING"
          /\ ret.node.CanonicalName.Token = T[NameIndex(T)]
          /\ ret.node.Alias = IF NameIndex(T) = 3 THEN Leaf(T[2]) ELSE NilNode
    /\ (Len(T) >= NameIndex(T) /\ T[NameIndex(T)].Kind # "STRING") =>
          /\ ret.panicked
          /\ ret.err.type = "UnexpectedNodeError"

C29_ScannedOn(T) ==
    /\ ~ret.panicked =>
          /\ ret.node.type = "ImportDecl"
          /\ ret.node.CanonicalName.Token.Kind = "STRING"
          /\ ret.node.CanonicalName.Token = T[NameIndex(T)]
          /\ ret.node.Alias = IF NameIndex(T) = 3 THEN Leaf(T[2]) ELSE NilNode
    /\ (Len(T) > NameIndex(T) /\ T[NameIndex(T)].Kind # "STRING") =>
          /\ ret.panicked
          /\ ret.err.type = "UnexpectedNodeError"
          /\ ret.err.Node = [type |-> "LiteralValue", Token |-> T[NameIndex(T)]]

MaxTokens == 4

Lexeme(kind) ==
    [Kind |-> kind,
     Literal |-> IF kind = "IDENT" THEN <<"a">> ELSE KeywordSpellings[kind]]

TypeName == [Kind |-> "IDENT", Literal |-> <<"U">>]

TokenLexemes ==
    {Lexeme(k) : k \in {"IDENT", "COMMA", "LPAREN", "RPAREN", "LBRACE",
                         "RBRACE", "RETURN", "SEMICOLON"}}

RECURSIVE LexemeSeqs(_)
LexemeSeqs(n) ==
    IF n = 0 THEN {<<>>}
    ELSE LET P == LexemeSeqs(n - 1)
         IN  P \cup {Append(q, l) : q \in P, l \in TokenLexemes}

\* ( a U ) ( U ) ;
PlainFunc ==
    <<Lexeme("LPAREN"), Lexeme("IDENT"), TypeName, Lexeme("RPAREN"),
      Lexeme("LPAREN"), TypeName, Lexeme("RPAREN"), Lexeme("SEMICOLON")>>

\* ( a U , ) ( U ) ;
TrailingCommaFunc ==
    <<Lexeme("LPAREN"), Lexeme("IDENT"), TypeName, Lexeme("COMMA"),
      Lexeme("RPAREN"), Lexeme("LPAREN"), TypeName, Lexeme("RPAREN"),
      Lexeme("SEMICOLON")>>

\* ( a U ) ( a U ) ( U ) ;
ChainedFunc == SubSeq(PlainFunc, 1, 4) \o PlainFunc

\* { return a , a ; } ;
ReturnBody ==
    <<Lexeme("LBRACE"), Lexeme("RETURN"), Lexeme("IDENT"), Lexeme("COMMA"),
      Lexeme("IDENT"), Lexeme("SEMICOLON"), Lexeme("RBRACE"),
      Lexeme("SEMICOLON")>>

\* fun a ( a U ) ( U ) { return a , a ; } ;
ReturningFunc ==
    <<Lexeme("FUNC"), Lexeme("IDENT")>> \o SubSeq(PlainFunc, 1, 7) \o ReturnBody

\* fun a ( a U ) ( U ) { } ;
EmptyFunc ==
    <<Lexeme("FUNC"), Lexeme("IDENT")>> \o SubSeq(PlainFunc, 1, 7)
        \o <<Lexeme("LBRACE"), Lexeme("RBRACE"), Lexeme("SEMICOLON")>>

\* a , , a ) ;   a , a , ) ;   { { } } ;
LongStreams ==
    { PlainFunc, TrailingCommaFunc, ChainedFunc, ReturnBody, ReturningFunc,
      EmptyFunc,
      <<Lexeme("IDENT"), Lexeme("COMMA"), Lexeme("COMMA"), Lexeme("IDENT"),
        Lexeme("RPAREN"), Lexeme("SEMICOLON")>>,
      <<Lexeme("IDENT"), Lexeme("COMMA"), Lexeme("IDENT"), Lexeme("COMMA"),
        Lexeme("RPAREN"), Lexeme("SEMICOLON")>>,
      <<Lexeme("LBRACE"), Lexeme("LBRACE"), Lexeme("RBRACE"), Lexeme("RBRACE"),
        Lexeme("SEMICOLON")>> }

\* The tokens of a sequence of lexemes written with one blank between them,
\* on one line, the first at offset off.
RECURSIVE Place(_, _)
Place(lexemes, off) ==
    IF lexemes = <<>> THEN <<>>
    ELSE <<MakeToken([Offset |-> off, Line |-> 0, Column |-> off],
                     [Offset |-> off + Len(Head(lexemes).Literal), Line |-> 0,
                      Column |-> off + Len(Head(lexemes).Literal)],
                     Head(lexemes).Kind, Head(lexemes).Literal)>>
         \o Place(Tail(lexemes), off + Len(Head(lexemes).Literal) + 1)

TokenStreams ==
    {Place(l, 0) : l \in LexemeSeqs(MaxTokens) \cup LongStreams}

\* What the calls of Scanner.Scan give from b on: a token each, then the
\* end-of-input failure.
RECURSIVE TokenScans(_)
TokenScansOn(b, nb) ==
    <<[bs |-> nb, tok |-> Head(b.Tokens), err |-> NoError]>> \o TokenScans(nb)

TokenScans(b) ==
    IF b.Tokens = <<>>
    THEN <<[bs |-> b, tok |-> ZeroToken, err |-> EOFError(b.Position)]>>
    ELSE TokenScansOn(b, [Position |-> Head(b.Tokens).PosRange.To,
                          Tokens |-> Tail(b.Tokens)])

TokenParser(b, tok) ==
    [bs |-> b, Token |-> tok, rest |-> TokenScans(b), err |-> NoError,
     node |-> NilNode]

InitTokens ==
    /\ bs \in {[Position |-> ZeroPosition, Tokens |-> t] : t \in TokenStreams}
    /\ Token = ZeroToken
    /\ QuoteStack = <<>>
    /\ Diagnosis = <<>>
    /\ ret = [op |-> "none", before |-> [Position |-> ZeroPosition, Tokens |-> <<>>],
              cur |-> ZeroToken, node |-> NilNode, err |-> NoError,
              panicked |-> FALSE]

\* p.Scan() called by the test.
ScanTokens ==
    /\ ~ret.panicked
    /\ bs' = ScanNext(TokenParser(bs, Token)).bs
    /\ Token' = ScanNext(TokenParser(bs, Token)).Token
    /\ ret' = [op |-> "Scan", before |-> bs, cur |-> Token, node |-> NilNode,
               err |-> ScanNext(TokenParser(bs, Token)).err,
               panicked |-> ScanNext(TokenParser(bs, Token)).err # NoError]
    /\ UNCHANGED <<QuoteStack, Diagnosis>>

TokensExpectFuncType ==
    CallOn("ExpectFuncType", ExpectFuncType(TokenParser(bs, Token)))

TokensExpectFuncDecl ==
    CallOn("ExpectFuncDecl", ExpectFuncDecl(TokenParser(bs, Token)))

TokensExpectExprList ==
    CallOn("ExpectExprList",
           ExpectExprList(TokenParser(bs, Token), "RPAREN", <<>>))

TokensExpectStmtBlockExpr ==
    CallOn("ExpectStmtBlockExpr", ExpectStmtBlockExpr(TokenParser(bs, Token)))

NextTokens ==
    \/ ScanTokens
    \/ TokensExpectFuncType
    \/ TokensExpectFuncDecl
    \/ TokensExpectExprList
    \/ TokensExpectStmtBlockExpr

SpecTokens == InitTokens /\ [][NextTokens]_vars

\* The tokens a call on a token stream started in front of, and their kinds.
TokensComing == <<ret.cur>> \o ret.before.Tokens

KindsOf(lexemes) == [i \in 1 .. Len(lexemes) |-> lexemes[i].Kind]

\* The call started in front of the tokens of these lexemes.
StartedOn(lexemes) ==
    /\ Len(TokensComing) >= Len(lexemes)
    /\ SubSeq(KindsOf(TokensComing), 1, Len(lexemes)) = KindsOf(lexemes)


\* C21: ExpectFuncType, called in front of ( a U , ) ( U ), returns without
\* a panic the FuncType it returns for ( a U ) ( U ): one parameter
\* declaration a U and one result type U.
C21_TrailingComma ==
    (ret.op = "ExpectFuncType" /\ StartedOn(TrailingCommaFunc)) =>
        /\ ~ret.panicked
        /\ ret.node.type = "FuncType"
        /\ SpelledAll(ret.node.Params) = <<[Idents |-> << <<"a">> >>, Type |-> <<"U">>]>>
        /\ Len(ret.node.Results) = 1

\* C22: ExpectFuncType, called in front of ( a U ) ( a U ) ( U ), returns
\* without a panic a FuncType whose Results is the one-element list holding
\* the FuncType of ( a U ) ( U ).
C22_ChainedResult ==
    (ret.op = "ExpectFuncType" /\ StartedOn(ChainedFunc)) =>
        /\ ~ret.panicked
        /\ ret.node.type = "FuncType"
        /\ Len(ret.node.Results) = 1
        /\ ret.node.Results[1].type = "FuncType"
        /\ SpelledAll(ret.node.Results[1].Params)
               = <<[Idents |-> << <<"a">> >>, Type |-> <<"U">>]>>

\* The number of pairs (comma, identifier) in T from index i on.
RECURSIVE CommaRun(_, _)
CommaRun(T, i) ==
    IF Len(T) >= i + 1 /\ T[i].Kind = "COMMA" /\ T[i + 1].Kind = "IDENT"
    THEN 1 + CommaRun(T, i + 2)
    ELSE 0

\* The index of the terminator of the list a (, a)* ,? ) written in T with n
\* expressions, 0 when T is not such a list.
ListEnd(T, n) ==
    IF Len(T) >= 2 * n /\ T[2 * n].Kind = "RPAREN" THEN 2 * n
    ELSE IF /\ Len(T) >= 2 * n + 1
            /\ T[2 * n].Kind = "COMMA"
            /\ T[2 * n + 1].Kind = "RPAREN" THEN 2 * n + 1
    ELSE 0

C23_On(T, n) ==
    /\ (T[1].Kind = "IDENT" /\ ListEnd(T, n) # 0) =>
          /\ ~ret.panicked
          /\ ret.node = [i \in 1 .. n |-> Leaf(T[2 * i - 1])]
          /\ Token = T[ListEnd(T, n)]
    /\ (\/ T[1].Kind = "COMMA"
        \/ T[1].Kind = "IDENT" /\ Len(T) >= 2 * n /\ T[2 * n].Kind = "IDENT"
        \/ T[1].Kind = "IDENT" /\ Len(T) >= 2 * n + 1
              /\ T[2 * n].Kind = "COMMA" /\ T[2 * n + 1].Kind = "COMMA") =>
          ret.panicked

\* C23: ExpectExprList(RPAREN), called in front of identifiers separated by
\* single commas, with or without one comma behind the last, and a `)`,
\* returns the identifiers in order with `)` as current token; called in
\* front of a comma, of two identifiers with no comma between them or of two
\* commas in a row, it raises a failure.
C23_ExprList ==
    ret.op = "ExpectExprList" =>
        C23_On(TokensComing, 1 + CommaRun(TokensComing, 2))

\* C27: ExpectStmtBlockExpr, called on `{`, does not loop for ever, and
\* called on `{ }` in front of a further token it returns with that token
\* as current token.
C27_BlockTerminates ==
    (ret.op = "ExpectStmtBlockExpr" /\ ret.cur.Kind = "LBRACE") =>
        /\ ret.err # Hang
        /\ (/\ Len(TokensComing) >= 3
            /\ TokensComing[2].Kind = "RBRACE") =>
              /\ ~ret.panicked
              /\ Token = TokensComing[3]

\* C28: ExpectFuncDecl, called in front of
\* fun a ( a U ) ( U ) { return a , a ; }, returns without a panic a FuncDecl
\* that carries the name a, the parameter declaration a U, the result type
\* U and a body of exactly one statement, a ReturnStmt of the two
\* expressions in order.
C28_ReturnBody ==
    (ret.op = "ExpectFuncDecl" /\ StartedOn(ReturningFunc)) =>
        /\ ~ret.panicked
        /\ ret.node.type = "FuncDecl"
        /\ ret.node.Ident = Leaf(TokensComing[2])
        /\ SpelledAll(ret.node.Type.Params)
               = <<[Idents |-> << <<"a">> >>, Type |-> <<"U">>]>>
        /\ Len(ret.node.Type.Results) = 1
        /\ Len(ret.node.Stmt.Stmts) = 1
        /\ ret.node.Stmt.Stmts[1].type = "ReturnStmt"
        /\ ret.node.Stmt.Stmts[1].Exprs
               = <<Leaf(TokensComing[11]), Leaf(TokensComing[13])>>

=============================================================================
